---- MODULE Spec2Model ----
(***************************************************************************)
(* The asynchronous analysis job pipeline of podcast-analyzer:              *)
(*   - AnalysisService.CreateAnalysisJob / UpdateJobStatus (job rows),      *)
(*   - AnalysisWorker.Run and AnalysisWorker.processAnalysisJob             *)
(*     (cmd/worker), whose runAnalysisAgents is a placeholder,              *)
(*   - AnalysisService.processAnalysisJob with runAnalysisAgents            *)
(*     (Summarizer, Takeaway Extractor, Fact Checker in sequence).          *)
(* The queue transport (pkg/kafka) is not part of the sources; it is        *)
(* modelled from the specification: at-least-once delivery, one worker      *)
(* per message at a time.                                                   *)
(***************************************************************************)
EXTENDS Integers, Sequences, FiniteSets, TLC

VARIABLES
    jobs,         \* analysis_results table: sequence of rows, job id = index
    factChecks,   \* fact_checks table: per job, the rows in insertion order
    queue,        \* messages waiting in the topic (no order across partitions)
    consumed,     \* job messages that were delivered at least once
    deliveries,   \* number of job messages handed to workers so far
    wk,           \* per worker: position in its loop and the locals of the job
    shutdown,     \* SIGINT/SIGTERM received: Stop() and cancel() were called
    lastCreate,   \* what the latest CreateAnalysisJob call returned
    storeFaulty,  \* whether store operations may fail in this behaviour
    call,         \* one outbound call of AnthropicClient.makeRequestWithRetry
    fck,          \* one run of FactCheckerAgent.Process
    parse,        \* one application of FactCheckerAgent.parseClaims
    verify,       \* one application of FactCheckerAgent.parseVerificationResult
    summ          \* one run of SummarizerAgent.Process

\* the state of the job pipeline, and the state of the client and agent runs
JobVars == <<jobs, factChecks, queue, consumed, deliveries, wk, shutdown,
             lastCreate, storeFaulty>>

AgentVars == <<call, fck, parse, verify, summ>>

vars == <<JobVars, AgentVars>>

----------------------------------------------------------------------------
(* Bounds *)

\* rows CreateAnalysisJob may write
MaxJobs == 1
\* job messages the workers may receive, redeliveries included
MaxDeliveries == 2

----------------------------------------------------------------------------
(* Values *)

NULL == "null"

\* rows of the transcripts table
Transcripts == {"t1"}
\* transcript ids a request may carry ("t9" has no row)
TranscriptIDs == {"t1", "t9"}

\* w1 runs cmd/worker (AnalysisWorker); w2 hands each job message to
\* AnalysisService.processAnalysisJob
Workers == {"w1", "w2"}

Impl(w) == IF w = "w1" THEN "worker" ELSE "service"

Terminal == {"completed", "failed"}

Active(w) == wk[w].pc \notin {"idle", "stopped", "crashed"}

\* outcomes of one store operation
StoreOutcomes == IF storeFaulty THEN {TRUE, FALSE} ELSE {TRUE}

\* TranscriptService.ReadTranscriptContent: the file's content
Content(t) == "content(" \o t \o ")"

\* the three stages as functions of their inputs
Summarize(content) == "summary(" \o content \o ")"

ExtractTakeaways(content, summary) ==
    << "takeaway(" \o content \o ";" \o summary \o ")" >>

CheckFacts(content) ==
    << [claim |-> "claim(" \o content \o ")", verdict |-> "true"] >>

----------------------------------------------------------------------------
(* Store operations *)

\* a row as CreateAnalysisJob writes it: summary, takeaways, completed_at
\* and error_message are nil
NewJob(t) ==
    [transcript |-> t, status |-> "pending", summary |-> NULL,
     takeaways |-> NULL, completedAt |-> 0, errorMessage |-> NULL]

JobExists(js, j) == j \in 1..Len(js)

\* time.Now() as written to completed_at: 0 is nil, and every call yields a
\* timestamp later than the one the row holds
TimeNow(completedAt) == completedAt + 1

\* AnalysisService.UpdateJobStatus: the table after the call
UpdateJobStatus(js, j, status, errorMessage) ==
    IF ~JobExists(js, j) THEN js
    ELSE [js EXCEPT
            ![j].status = status,
            ![j].errorMessage = IF errorMessage # "" THEN errorMessage ELSE @,
            ![j].completedAt = IF status \in Terminal THEN TimeNow(@) ELSE @]

\* a lookup that finds a row for every id
TranscriptFoundAlways(t) == TRUE

\* CreateAnalysisJob's lookup of the transcript row
TranscriptFound(t) == t \in Transcripts

----------------------------------------------------------------------------
(* Initial state *)

IdleWorker ==
    [pc |-> "idle", job |-> 0, transcript |-> NULL, content |-> NULL,
     summary |-> NULL, takeaways |-> <<>>, facts |-> <<>>,
     sumRes |-> "none", takeRes |-> "none", factRes |-> "none",
     takeCtx |-> NULL, calls |-> <<>>, afterPanic |-> FALSE]

InitCommon ==
    /\ jobs = <<>>
    /\ factChecks = <<>>
    /\ queue = {}
    /\ consumed = {}
    /\ deliveries = 0
    /\ wk = [w \in Workers |-> IdleWorker]
    /\ shutdown = FALSE
    /\ lastCreate = [transcript |-> NULL, err |-> NULL, jobID |-> 0, row |-> 0]

\* no outbound call, no fact checker run and no parse is under way
NoCall == [pc |-> "none"]

NoFactCheck == [pc |-> "none"]

NoParse == [pc |-> "none"]

NoVerify == [pc |-> "none"]

NoSummary == [pc |-> "none"]

AgentsIdle ==
    /\ call = NoCall
    /\ fck = NoFactCheck
    /\ parse = NoParse
    /\ verify = NoVerify
    /\ summ = NoSummary

Init == InitCommon /\ storeFaulty = FALSE /\ AgentsIdle

----------------------------------------------------------------------------
(* Request path *)

JobMessage(j, t) == [kind |-> "job", job |-> j, transcript |-> t]

\* what a CreateAnalysisJob call returned: the error (NULL: none), the job id
\* handed to the caller (0: none) and the row the call wrote (0: none)
CreateResult(t, err, jobID, row) ==
    [transcript |-> t, err |-> err, jobID |-> jobID, row |-> row]

\* the status update of a job whose publish failed:
\* s.db.Model(analysis).Update("status", "failed")
MarkUnqueued(row) == [row EXCEPT !.status = "failed"]

\* AnalysisService.CreateAnalysisJob(req): transcript lookup, row creation,
\* publish, and the status update when the publish fails
CreateAnalysisJob(t, createOk, publishOk, updateOk) ==
    /\ Len(jobs) < MaxJobs
    /\ UNCHANGED <<consumed, deliveries, wk, shutdown, storeFaulty>>
    /\ IF ~TranscriptFound(t)
       THEN /\ lastCreate' = CreateResult(t, "not_found", 0, 0)
            /\ UNCHANGED <<jobs, factChecks, queue>>
       ELSE IF ~createOk
       THEN /\ lastCreate' = CreateResult(t, "create_failed", 0, 0)
            /\ UNCHANGED <<jobs, factChecks, queue>>
       ELSE LET j == Len(jobs) + 1 IN
            /\ factChecks' = Append(factChecks, <<>>)
            /\ IF publishOk
               THEN /\ jobs' = Append(jobs, NewJob(t))
                    /\ queue' = queue \cup {JobMessage(j, t)}
                    /\ lastCreate' = CreateResult(t, NULL, j, j)
               ELSE /\ jobs' = Append(jobs,
                           IF updateOk THEN MarkUnqueued(NewJob(t))
                           ELSE NewJob(t))
                    /\ queue' = queue
                    /\ lastCreate' = CreateResult(t, "queue_failed", 0, j)

----------------------------------------------------------------------------
(* Worker: panics *)

\* the job function returns to the consume loop and its locals are gone
Return(w) == IdleWorker

SetWorker(w, rec) == [wk EXCEPT ![w] = rec]

\* a job function without a recovering defer: the panic reaches Run
PanicPcUnrecovered(impl) == "crashed"

\* where a worker is after a panic inside its job function.
\* cmd/worker: the deferred closure recovers and sets retErr, Run goes on.
\* services: "defer s.setupJobPanicRecovery(jobID, correlationID)" defers
\* the call that builds the recovery closure; the closure itself never
\* runs, so nothing recovers and the panic leaves the job function.
PanicPc(impl) == IF impl = "worker" THEN "idle" ELSE "crashed"

\* the jobs table after the panic handling of either job function: neither
\* the recovering closure of cmd/worker nor the unrun closure of services
\* writes a status
PanicStatus(impl, js, j) == js

\* afterPanic: the job function this worker ran last ended in a panic
Panicked(w) ==
    [Return(w) EXCEPT !.pc = PanicPc(Impl(w)), !.afterPanic = TRUE]

\* a panic inside the job function
PanicJob(w) ==
    /\ wk' = SetWorker(w, Panicked(w))
    /\ jobs' = PanicStatus(Impl(w), jobs, wk[w].job)

----------------------------------------------------------------------------
(* Worker: receiving a message *)

\* AnalysisWorker.Run, one iteration: ReadMessage, json.Unmarshal (a failure
\* is logged and the loop continues), then the head of processAnalysisJob:
\* uuid.Parse of both ids and UpdateJobStatus(jobID, "processing", "")
Receive(w, m, ok) ==
    /\ wk[w].pc = "idle"
    /\ ~shutdown
    /\ m \in queue
    /\ queue' = queue \ {m}
    /\ IF m.kind # "job"
       THEN /\ wk' = SetWorker(w, IdleWorker)
            /\ UNCHANGED <<jobs, consumed, deliveries>>
       ELSE /\ deliveries < MaxDeliveries
            /\ deliveries' = deliveries + 1
            /\ consumed' = consumed \cup {m}
            /\ IF ok /\ JobExists(jobs, m.job)
               THEN /\ jobs' = UpdateJobStatus(jobs, m.job, "processing", "")
                    /\ wk' = SetWorker(w, [IdleWorker EXCEPT
                                             !.pc = "getTranscript",
                                             !.job = m.job,
                                             !.transcript = m.transcript,
                                             !.afterPanic = wk[w].afterPanic])
               ELSE /\ jobs' = jobs
                    /\ wk' = SetWorker(w, IdleWorker)
    /\ UNCHANGED <<factChecks, shutdown, lastCreate, storeFaulty>>

----------------------------------------------------------------------------
(* cmd/worker: the placeholder orchestrator *)

PlaceholderSummary ==
    "This is a placeholder summary generated by the Go worker. The actual implementation would use AI agents to analyze the transcript content."

PlaceholderTakeaways ==
    <<"Placeholder takeaway 1", "Placeholder takeaway 2", "Placeholder takeaway 3">>

PlaceholderFactChecks ==
    << [claim |-> "Example factual claim from transcript", verdict |-> "unverifiable"] >>

\* AnalysisWorker.runAnalysisAgents: sleeps and returns fixed results; it
\* reads neither the content nor the context and never fails
WorkerRunAnalysisAgents(rec, content) ==
    [rec EXCEPT !.pc = "save",
                !.content = content,
                !.summary = PlaceholderSummary,
                !.takeaways = PlaceholderTakeaways,
                !.facts = PlaceholderFactChecks]

----------------------------------------------------------------------------
(* services: runAnalysisAgents *)

\* how an agent's Process can end: with its output, with an error of its
\* own, with a panic, or with the error of its context ("cancelled")
StageOutcomes == {"ok", "err", "panic", "cancelled"}

\* the outcomes open to a stage now: the context's error only once the
\* context handed down to the job is cancelled (cancel() after a signal)
StageCanEnd(res) == res = "cancelled" => shutdown

\* options that carry no summary
TakeawayOptionsEmpty(summary) == ""

\* ProcessingOptions{Summary: summary} handed to the Takeaway Extractor
TakeawayOptions(summary) == summary

\* the stage runAnalysisAgents calls first, and the one it calls after each
FirstStage == "summarizer"

StageAfter(stage) ==
    IF stage = "summarizer" THEN "takeaway_extractor" ELSE "fact_checker"

\* runAnalysisAgents starts: runSummarizerAgent is called with the content
CallSummarizer(rec, content) ==
    [rec EXCEPT !.pc = FirstStage,
                !.content = content,
                !.calls = Append(@, FirstStage)]

----------------------------------------------------------------------------
(* Worker: loading the transcript *)

TranscriptOutcomes == {"ok", "lookup_failed", "read_failed", "panic"}

TranscriptError(out) ==
    IF out = "lookup_failed" THEN "Transcript not found"
    ELSE "Failed to read transcript content"

\* GetTranscript + ReadTranscriptContent (cmd/worker), getTranscriptForJob
\* (services): a failure marks the job failed and returns the error; with
\* the content in hand runAnalysisAgents is entered
GetTranscript(w, out, ok) ==
    /\ wk[w].pc = "getTranscript"
    /\ IF out = "ok"
       THEN /\ wk' = SetWorker(w,
                IF Impl(w) = "worker"
                THEN WorkerRunAnalysisAgents(wk[w], Content(wk[w].transcript))
                ELSE CallSummarizer(wk[w], Content(wk[w].transcript)))
            /\ jobs' = jobs
       ELSE IF out = "panic" THEN PanicJob(w)
       ELSE /\ wk' = SetWorker(w, Return(w))
            /\ jobs' = IF ok THEN UpdateJobStatus(jobs, wk[w].job, "failed",
                                                  TranscriptError(out))
                       ELSE jobs
    /\ UNCHANGED <<factChecks, queue, consumed, deliveries, shutdown,
                   lastCreate, storeFaulty>>

----------------------------------------------------------------------------
(* services: the stages return *)

\* every stage hands its agent's error back
StageErrorAllFatal(stage, res) == IF res = "err" THEN "err" ELSE "nil"

\* the error run<Stage>Agent hands back to runAnalysisAgents for a stage
\* that ended with res: runSummarizerAgent returns the agent's error,
\* runTakeawayExtractorAgent and runFactCheckerAgent log it and return an
\* empty list with a nil error
StageError(stage, res) ==
    IF res \in {"err", "cancelled"} /\ stage = "summarizer" THEN "err"
    ELSE "nil"

\* a stage's result as runAnalysisAgents receives it
StageResult(res, output) == IF res = "ok" THEN output ELSE <<>>

\* runAnalysisAgents returns (nil, err): processAnalysisJob marks the job
\* failed with "Analysis processing failed after ..." and returns the error
AbortJob(w, ok) ==
    /\ wk' = SetWorker(w, Return(w))
    /\ jobs' = IF ok THEN UpdateJobStatus(jobs, wk[w].job, "failed",
                                          "Analysis processing failed")
               ELSE jobs

\* runSummarizerAgent returns; without an error the Takeaway Extractor is
\* called with the summary as context
SummarizerReturns(w, res, ok) ==
    /\ wk[w].pc = "summarizer"
    /\ StageCanEnd(res)
    /\ IF res = "panic" THEN PanicJob(w)
       ELSE IF StageError("summarizer", res) # "nil" THEN AbortJob(w, ok)
       ELSE /\ wk' = SetWorker(w,
                [wk[w] EXCEPT !.sumRes = res,
                              !.summary = Summarize(wk[w].content),
                              !.takeCtx = TakeawayOptions(Summarize(wk[w].content)),
                              !.pc = StageAfter("summarizer"),
                              !.calls = Append(@, StageAfter("summarizer"))])
            /\ jobs' = jobs
    /\ UNCHANGED <<factChecks, queue, consumed, deliveries, shutdown,
                   lastCreate, storeFaulty>>

\* runTakeawayExtractorAgent returns; without an error the Fact Checker is
\* called
TakeawayReturns(w, res, ok) ==
    /\ wk[w].pc = "takeaway_extractor"
    /\ StageCanEnd(res)
    /\ IF res = "panic" THEN PanicJob(w)
       ELSE IF StageError("takeaway_extractor", res) # "nil" THEN AbortJob(w, ok)
       ELSE /\ wk' = SetWorker(w,
                [wk[w] EXCEPT !.takeRes = res,
                              !.takeaways = StageResult(res,
                                  ExtractTakeaways(wk[w].content, wk[w].takeCtx)),
                              !.pc = StageAfter("takeaway_extractor"),
                              !.calls = Append(@, StageAfter("takeaway_extractor"))])
            /\ jobs' = jobs
    /\ UNCHANGED <<factChecks, queue, consumed, deliveries, shutdown,
                   lastCreate, storeFaulty>>

\* runFactCheckerAgent returns; without an error transformAnalysisResults
\* assembles the result and runAnalysisAgents returns it
FactCheckerReturns(w, res, ok) ==
    /\ wk[w].pc = "fact_checker"
    /\ StageCanEnd(res)
    /\ IF res = "panic" THEN PanicJob(w)
       ELSE IF StageError("fact_checker", res) # "nil" THEN AbortJob(w, ok)
       ELSE /\ wk' = SetWorker(w,
                [wk[w] EXCEPT !.factRes = res,
                              !.facts = StageResult(res, CheckFacts(wk[w].content)),
                              !.pc = "save"])
            /\ jobs' = jobs
    /\ UNCHANGED <<factChecks, queue, consumed, deliveries, shutdown,
                   lastCreate, storeFaulty>>

----------------------------------------------------------------------------
(* Worker: persisting the results *)

RECURSIVE JoinQuoted(_)
\* the elements of a list of strings as JSON strings separated by commas
JoinQuoted(strs) ==
    IF strs = <<>> THEN ""
    ELSE "\"" \o Head(strs) \o "\""
         \o (IF Len(strs) > 1 THEN "," ELSE "") \o JoinQuoted(Tail(strs))

\* json.Marshal(results.Takeaways) of map[string]interface{}{"takeaways":
\* takeaways}: the column holds an object with the list under "takeaways"
MarshalTakeaways(takeaways) ==
    "{\"takeaways\":[" \o JoinQuoted(takeaways) \o "]}"

\* the row after saveAnalysisResults' Save: summary, takeaways, completed_at
SavedRow(row, summary, takeaways) ==
    [row EXCEPT !.summary = summary,
                !.takeaways = MarshalTakeaways(takeaways),
                !.completedAt = TimeNow(@)]

\* saveFactChecks: one row is created per fact check of the result, after
\* the rows the job already has
SaveFactChecks(rows, facts) == rows \o facts

\* saveAnalysisResults and saveFactChecks (services) / the inline save of
\* cmd/worker: a failed find or Save marks the job failed and returns the
\* error; a failed Create of a fact check is logged and skipped
SaveAnalysisResults(w, ok, failOk, factsOk) ==
    /\ wk[w].pc = "save"
    /\ LET j == wk[w].job IN
       IF ok /\ JobExists(jobs, j)
       THEN /\ jobs' = [jobs EXCEPT ![j] = SavedRow(@, wk[w].summary,
                                                    wk[w].takeaways)]
            /\ factChecks' = IF factsOk
                             THEN [factChecks EXCEPT
                                     ![j] = SaveFactChecks(@, wk[w].facts)]
                             ELSE factChecks
            /\ wk' = SetWorker(w, [wk[w] EXCEPT !.pc = "complete"])
       ELSE /\ jobs' = IF failOk THEN UpdateJobStatus(jobs, j, "failed",
                                          "Failed to save analysis results")
                       ELSE jobs
            /\ factChecks' = factChecks
            /\ wk' = SetWorker(w, Return(w))
    /\ UNCHANGED <<queue, consumed, deliveries, shutdown, lastCreate,
                   storeFaulty>>

\* UpdateJobStatus(jobID, "completed", "") and the return to the loop
MarkCompleted(w, ok) ==
    /\ wk[w].pc = "complete"
    /\ IF ok
       THEN /\ jobs' = UpdateJobStatus(jobs, wk[w].job, "completed", "")
            /\ wk' = SetWorker(w, Return(w))
       ELSE /\ jobs' = jobs
            /\ wk' = SetWorker(w, Return(w))
    /\ UNCHANGED <<factChecks, queue, consumed, deliveries, shutdown,
                   lastCreate, storeFaulty>>

----------------------------------------------------------------------------
(* Environment: queue transport and signals *)

\* at-least-once delivery: a job message that was delivered is delivered
\* again; no two workers hold the same message at a time
Redeliver(m) ==
    /\ m \in consumed
    /\ m \notin queue
    /\ \A w \in Workers : Active(w) => wk[w].job # m.job
    /\ queue' = queue \cup {m}
    /\ UNCHANGED <<jobs, factChecks, consumed, deliveries, wk, shutdown,
                   lastCreate, storeFaulty>>

MalformedKinds == {"bad_json", "bad_job_id"}

MalformedMessage(kind) == [kind |-> kind, job |-> 0, transcript |-> NULL]

\* a payload that is not a job message arrives on the topic
InjectMalformed(kind) ==
    /\ \A k \in MalformedKinds : MalformedMessage(k) \notin queue
    /\ queue' = queue \cup {MalformedMessage(kind)}
    /\ UNCHANGED <<jobs, factChecks, consumed, deliveries, wk, shutdown,
                   lastCreate, storeFaulty>>

\* main's signal goroutine: worker.Stop() and cancel()
Shutdown ==
    /\ ~shutdown
    /\ shutdown' = TRUE
    /\ UNCHANGED <<jobs, factChecks, queue, consumed, deliveries, wk,
                   lastCreate, storeFaulty>>

\* AnalysisWorker.Run leaves its loop: ctx.Done() or running = false
StopWorker(w) ==
    /\ shutdown
    /\ wk[w].pc = "idle"
    /\ wk' = SetWorker(w, [wk[w] EXCEPT !.pc = "stopped"])
    /\ UNCHANGED <<jobs, factChecks, queue, consumed, deliveries, shutdown,
                   lastCreate, storeFaulty>>

----------------------------------------------------------------------------
(* Specification *)

Next ==
    \/ \E t \in TranscriptIDs, publishOk \in BOOLEAN,
          createOk \in StoreOutcomes, updateOk \in StoreOutcomes :
          CreateAnalysisJob(t, createOk, publishOk, updateOk)
              /\ UNCHANGED AgentVars
    \/ \E w \in Workers, m \in queue, ok \in StoreOutcomes :
          Receive(w, m, ok) /\ UNCHANGED AgentVars
    \/ \E w \in Workers, out \in TranscriptOutcomes, ok \in StoreOutcomes :
          GetTranscript(w, out, ok) /\ UNCHANGED AgentVars
    \/ \E w \in Workers, res \in StageOutcomes, ok \in StoreOutcomes :
          SummarizerReturns(w, res, ok) /\ UNCHANGED AgentVars
    \/ \E w \in Workers, res \in StageOutcomes, ok \in StoreOutcomes :
          TakeawayReturns(w, res, ok) /\ UNCHANGED AgentVars
    \/ \E w \in Workers, res \in StageOutcomes, ok \in StoreOutcomes :
          FactCheckerReturns(w, res, ok) /\ UNCHANGED AgentVars
    \/ \E w \in Workers, ok \in StoreOutcomes, failOk \in StoreOutcomes,
          factsOk \in StoreOutcomes :
          SaveAnalysisResults(w, ok, failOk, factsOk) /\ UNCHANGED AgentVars
    \/ \E w \in Workers, ok \in StoreOutcomes :
          MarkCompleted(w, ok) /\ UNCHANGED AgentVars
    \/ \E m \in consumed : Redeliver(m) /\ UNCHANGED AgentVars
    \/ \E kind \in MalformedKinds : InjectMalformed(kind) /\ UNCHANGED AgentVars
    \/ Shutdown /\ UNCHANGED AgentVars
    \/ \E w \in Workers : StopWorker(w) /\ UNCHANGED AgentVars

Spec == Init /\ [][Next]_vars

----------------------------------------------------------------------------
(* Claims *)

\* the job ids of the rows written so far
JobIDs == 1..Len(jobs)

\* C1: a job's status changes only along pending -> processing ->
\* completed or pending -> processing -> failed; it never regresses and no
\* other transition occurs, under any interleaving of CreateJob calls,
\* worker processing and redelivery.
C1_StatusTransitions ==
    [][\A j \in JobIDs :
          jobs'[j].status # jobs[j].status
              => <<jobs[j].status, jobs'[j].status>>
                     \in {<<"pending", "processing">>,
                          <<"processing", "completed">>,
                          <<"processing", "failed">>}]_vars

\* C2: once a job's status is completed or failed, no field of its row is
\* changed again by any later operation, the processing of a redelivered
\* message included.
C2_TerminalRowImmutable ==
    [][\A j \in JobIDs : jobs[j].status \in Terminal => jobs'[j] = jobs[j]]_vars

\* the step in which worker w's job function ends in a panic
PanicStep(w) == Active(w) /\ ~Active(w)' /\ wk'[w].afterPanic

\* C3: a panic while a worker processes a job is caught at the job boundary
\* and converted into a failed-job status update: the worker is back in its
\* loop and the job's row has status failed, not processing.
C3_PanicMarksJobFailed ==
    [][\A w \in Workers :
          PanicStep(w) => /\ wk'[w].pc = "idle"
                          /\ jobs'[wk[w].job].status = "failed"]_vars

\* the workers that run the consume loop of cmd/worker
LoopWorkers == {w \in Workers : Impl(w) = "worker"}

\* C4: no failure while handling one message (a panic, a processing error,
\* an unparseable payload) ends the consume loop of AnalysisWorker.Run: the
\* worker is never crashed, it has stopped only when shutdown was requested,
\* and otherwise it is at ReadMessage or inside a job.
C4_ConsumeLoopSurvives ==
    \A w \in LoopWorkers :
        /\ wk[w].pc # "crashed"
        /\ wk[w].pc = "stopped" => shutdown
        /\ ~shutdown => (wk[w].pc = "idle" \/ Active(w))

\* a worker whose previous job function panicked has picked up a later
\* message and processed it up to the completion update
C4_Witness ==
    \E w \in LoopWorkers : wk[w].afterPanic /\ wk[w].pc = "complete"

\* C5: when the publish fails inside CreateAnalysisJob the call returns an
\* error and no job id, and the row it wrote has status failed and carries
\* an error message.
C5_EnqueueFailure ==
    lastCreate.err = "queue_failed"
        => /\ lastCreate.jobID = 0
           /\ JobExists(jobs, lastCreate.row)
           /\ jobs[lastCreate.row].status = "failed"
           /\ jobs[lastCreate.row].errorMessage # NULL

\* job messages that are or were on the topic
JobMessages == {m \in queue \cup consumed : m.kind = "job"}

\* C6: CreateAnalysisJob for a transcript id without a row returns a
\* not-found error and no job id, writes no row and publishes no message:
\* every row and every job message refers to an existing transcript.
C6_UnknownTranscript ==
    /\ lastCreate.transcript \notin Transcripts \cup {NULL}
          => /\ lastCreate.err = "not_found"
             /\ lastCreate.jobID = 0
             /\ lastCreate.row = 0
    /\ \A j \in JobIDs : jobs[j].transcript \in Transcripts
    /\ \A m \in JobMessages : m.transcript \in Transcripts
    /\ Len(factChecks) = Len(jobs)

\* a call for the id without a row has returned not-found
C6_Witness ==
    /\ lastCreate.transcript = "t9"
    /\ lastCreate.err = "not_found"
    /\ jobs = <<>>
    /\ queue = {}

\* the last n rows of a job's fact checks
LastRows(rows, n) == SubSeq(rows, Len(rows) - n + 1, Len(rows))

\* C7: for every job message a worker dequeues it sets status processing,
\* loads the transcript's content and invokes the orchestrator, so what it
\* has persisted when it is about to mark the job completed are the outputs
\* of the Summarizer, Takeaway Extractor and Fact Checker on that content
\* (an empty list where a non-fatal stage failed).
C7_PersistedResultsAreStageOutputs ==
    \A w \in Workers :
        wk[w].pc = "complete" =>
            LET j == wk[w].job
                c == Content(jobs[j].transcript)
            IN  /\ jobs[j].status = "processing"
                /\ wk[w].content = c
                /\ jobs[j].summary = Summarize(c)
                /\ jobs[j].takeaways
                      \in {MarshalTakeaways(ExtractTakeaways(c, Summarize(c))),
                           MarshalTakeaways(<<>>)}
                /\ Len(factChecks[j]) >= Len(wk[w].facts)
                /\ LastRows(factChecks[j], Len(wk[w].facts)) \in {CheckFacts(c), <<>>}

\* the step in which runAnalysisAgents returns the Summarizer's error and
\* the job function returns it
SummarizerErrorStep(w) ==
    wk[w].pc = "summarizer" /\ wk'[w].pc = "idle" /\ ~wk'[w].afterPanic

\* C8: if the Summarizer returns an error, the Takeaway Extractor and the
\* Fact Checker are never invoked for the job, and the job ends with status
\* failed and with empty takeaways and fact checks.
C8_SummarizerErrorFailsJob ==
    [][\A w \in Workers :
          SummarizerErrorStep(w) =>
              LET j == wk[w].job
              IN  /\ wk[w].calls = <<"summarizer">>
                  /\ jobs'[j].status = "failed"
                  /\ jobs'[j].takeaways \in {NULL, MarshalTakeaways(<<>>)}
                  /\ factChecks'[j] = <<>>]_vars

\* the workers that run runAnalysisAgents of internal/services
StageWorkers == {w \in Workers : Impl(w) = "service"}

\* worker w's run had a non-fatal stage fail
Degraded(w) == "err" \in {wk[w].takeRes, wk[w].factRes}

\* C9: if the Takeaway Extractor or the Fact Checker returns an error, its
\* output is replaced by an empty list, the remaining stage still runs (the
\* return of either stage never ends the job), and the job ends with status
\* completed with the other stages' outputs intact in its row.
C9_NonFatalStageErrors ==
    [][\A w \in StageWorkers :
          LET j == wk[w].job
              c == wk[w].content
          IN  /\ (wk[w].pc = "takeaway_extractor" /\ wk'[w] # wk[w] /\ ~PanicStep(w))
                    => /\ wk'[w].pc = "fact_checker"
                       /\ wk'[w].calls = Append(wk[w].calls, "fact_checker")
              /\ (wk[w].pc = "fact_checker" /\ wk'[w] # wk[w] /\ ~PanicStep(w))
                    => wk'[w].pc = "save"
              /\ wk'[w].takeRes = "err" => wk'[w].takeaways = <<>>
              /\ wk'[w].factRes = "err" => wk'[w].facts = <<>>
              /\ wk'[w].takeRes = "ok"
                    => wk'[w].takeaways = ExtractTakeaways(c, Summarize(c))
              /\ wk'[w].factRes = "ok" => wk'[w].facts = CheckFacts(c)
              /\ (Degraded(w) /\ ~Active(w)' /\ ~PanicStep(w))
                    => /\ jobs'[j].status = "completed"
                       /\ jobs'[j].summary = Summarize(c)
                       /\ jobs'[j].takeaways = MarshalTakeaways(wk[w].takeaways)
                       /\ LastRows(factChecks'[j], Len(wk[w].facts)) = wk[w].facts]_vars

\* a job completed with the summary and the fact checks of its stages and
\* with the empty takeaways of a Takeaway Extractor that failed
C9_Witness ==
    \E j \in JobIDs :
        LET c == Content(jobs[j].transcript)
        IN  /\ jobs[j].status = "completed"
            /\ jobs[j].summary = Summarize(c)
            /\ jobs[j].takeaways = MarshalTakeaways(<<>>)
            /\ factChecks[j] = CheckFacts(c)

StageOrder == <<"summarizer", "takeaway_extractor", "fact_checker">>

\* C10: within one job the stages run one after another in the order
\* Summarizer, Takeaway Extractor, Fact Checker: the stages called so far
\* are a prefix of that order, the one running is the last one called and
\* all before it have returned, and the Takeaway Extractor is given the
\* Summarizer's output as context.
C10_StagesSequentialInOrder ==
    \A w \in StageWorkers :
        LET n == Len(wk[w].calls)
        IN  /\ n <= Len(StageOrder)
            /\ wk[w].calls = SubSeq(StageOrder, 1, n)
            /\ wk[w].pc \in {StageOrder[i] : i \in 1..3}
                  => n >= 1 /\ wk[w].calls[n] = wk[w].pc
            /\ n >= 2 => /\ wk[w].sumRes = "ok"
                         /\ wk[w].summary = Summarize(wk[w].content)
                         /\ wk[w].takeCtx = wk[w].summary
            /\ n < 2 => wk[w].sumRes = "none" /\ wk[w].takeRes = "none"
            /\ n = 3 => wk[w].takeRes # "none"
            /\ n < 3 => wk[w].takeRes = "none" /\ wk[w].factRes = "none"
            /\ wk[w].factRes # "none" => wk[w].pc \in {"save", "complete"}

\* the Fact Checker is running after the other two stages were called
C10_Witness ==
    \E w \in StageWorkers :
        /\ wk[w].pc = "fact_checker"
        /\ wk[w].calls = StageOrder
        /\ wk[w].takeCtx = Summarize(Content(wk[w].transcript))

----------------------------------------------------------------------------
(* External API client: AnthropicClient.CallClaude and makeRequestWithRetry *)

\* maxRetries as CallClaude passes it to makeRequestWithRetry
MaxRetries == 3

\* json.Marshal(request): the body prepareHTTPRequest wraps in bytes.NewBuffer
RequestBody == "{\"model\":\"m\",\"max_tokens\":4000,\"messages\":[]}"

\* what io.ReadAll returns from a reader that was read to its end
Drained == ""

\* Retry-After header values as strings of characters; <<>>: no header
RetryAfterHeaders == {<<>>, <<"5">>, <<"0">>, <<"s", "o", "o", "n">>}

DigitChars == <<"0", "1", "2", "3", "4", "5", "6", "7", "8", "9">>

IsDigit(ch) == \E i \in 1..Len(DigitChars) : DigitChars[i] = ch

DigitValue(ch) == (CHOOSE i \in 1..Len(DigitChars) : DigitChars[i] = ch) - 1

RECURSIVE DigitsValue(_, _)
\* the decimal value of a string of digits, most significant first
DigitsValue(chars, acc) ==
    IF chars = <<>> THEN acc
    ELSE DigitsValue(Tail(chars), 10 * acc + DigitValue(Head(chars)))

\* strconv.Atoi: an optional sign and then digits only; anything else, the
\* empty string included, is an error
Atoi(chars) ==
    LET signed == chars # <<>> /\ Head(chars) \in {"+", "-"}
        digits == IF signed THEN Tail(chars) ELSE chars
    IN  IF digits = <<>> \/ \E i \in 1..Len(digits) : ~IsDigit(digits[i])
        THEN [ok |-> FALSE, value |-> 0]
        ELSE [ok |-> TRUE,
              value |-> IF signed /\ Head(chars) = "-"
                        THEN 0 - DigitsValue(digits, 0)
                        ELSE DigitsValue(digits, 0)]

\* what one attempt meets: the network fails (written: after the request body
\* was read and written), or the provider answers with a status; json: the
\* error body parses as JSON
TransportFailure(written) ==
    [kind |-> "transport", status |-> 0, retryAfter |-> <<>>,
     written |-> written, json |-> FALSE]

StatusResponse(status, retryAfter, json) ==
    [kind |-> "status", status |-> status, retryAfter |-> retryAfter,
     written |-> TRUE, json |-> json]

\* every error status is retried
RetryableAnyError(d) == d.kind = "transport" \/ d.status >= 400

\* "response.StatusCode >= 500 || response.StatusCode == 429", or err != nil
Retryable(d) == d.kind = "transport" \/ d.status >= 500 \/ d.status = 429

RetryableAnswers ==
    {TransportFailure(wr) : wr \in BOOLEAN}
        \cup {StatusResponse(500, <<>>, FALSE)}
        \cup {StatusResponse(429, h, TRUE) : h \in RetryAfterHeaders}

FinalAnswers ==
    {StatusResponse(200, <<>>, TRUE)}
        \cup {StatusResponse(400, <<>>, js) : js \in BOOLEAN}

\* what the network and the provider do with the successive complete
\* requests of one call: retryable failures, ended by a final answer unless
\* there are MaxRetries + 1 failures
Scripts ==
    UNION {{Append(pre, d) : pre \in [1..k -> RetryableAnswers],
                            d \in FinalAnswers} : k \in 0..MaxRetries}
        \cup [1..(MaxRetries + 1) -> RetryableAnswers]

\* a wait that does not grow with the attempt
BackoffFixed(attempt) == 1

\* time.Duration(1<<uint(attempt)) * time.Second, in seconds
Backoff(attempt) == 2 ^ attempt

\* the wait after a retryable status: the backoff, or for a 429 whose
\* Retry-After header Atoi parses, that many seconds
WaitAfterStatus(d, attempt) ==
    IF d.status = 429 /\ d.retryAfter # <<>> /\ Atoi(d.retryAfter).ok
    THEN Atoi(d.retryAfter).value
    ELSE Backoff(attempt)

\* the message of the provider's error body
ProviderMessage == "invalid_request_error: bad request"

\* CallClaude has built the request and enters makeRequestWithRetry.
\* body: what is left to read from req.Body; requestBody: the bytes the
\* current iteration read; sent: the body each Do wrote; outcomes: what each
\* Do met; waits: the seconds of each backoff wait
NewCall(script) ==
    [pc |-> "send", attempt |-> 0, script |-> script, pos |-> 0,
     body |-> RequestBody, requestBody |-> Drained,
     pending |-> TransportFailure(FALSE), wait |-> 0, reset |-> FALSE,
     sent |-> <<>>, outcomes |-> <<>>, waits |-> <<>>,
     cancelled |-> FALSE, result |-> "none", status |-> 0, message |-> NULL]

InitRetry ==
    /\ InitCommon
    /\ storeFaulty = FALSE
    /\ fck = NoFactCheck
    /\ parse = NoParse
    /\ verify = NoVerify
    /\ summ = NoSummary
    /\ call \in {NewCall(script) : script \in Scripts}

\* the call ends: makeRequestWithRetry and CallClaude return
CallReturns(c, result, status, message) ==
    [c EXCEPT !.pc = "done", !.result = result, !.status = status,
              !.message = message]

\* parseAnthropicResponse for the response makeRequestWithRetry returned
ParseAnthropicResponse(c, d) ==
    IF d.status = 200 THEN CallReturns(c, "text", d.status, NULL)
    ELSE IF d.json
    THEN CallReturns(c, IF d.status = 429 THEN "rate_limit" ELSE "api_error",
                     d.status, ProviderMessage)
    ELSE CallReturns(c, "unknown_api_error", d.status, NULL)

\* the loop body up to c.httpClient.Do(req): io.ReadAll(req.Body), req.Body
\* set to a reader over what was read, and the request handed to the
\* transport. A request whose context is done is not sent. A request whose
\* body is shorter than the Content-Length NewRequestWithContext took from
\* the buffer is cut off by the transport or refused by the provider
\* (rejected: with a 400); the provider answers complete requests by its
\* script.
DoRequest(rejected) ==
    /\ call.pc = "send"
    /\ LET read == call.body
           c == [call EXCEPT !.requestBody = read, !.body = read]
       IN  IF call.cancelled
           THEN call' = CallReturns([c EXCEPT !.outcomes =
                                        Append(@, TransportFailure(FALSE))],
                                    "request_failed", 0, NULL)
           ELSE IF read # RequestBody
           THEN call' = [c EXCEPT !.pc = "inflight",
                                  !.sent = Append(@, read),
                                  !.pending = IF rejected
                                      THEN StatusResponse(400, <<>>, TRUE)
                                      ELSE TransportFailure(TRUE)]
           ELSE call' = [c EXCEPT !.pc = "inflight",
                                  !.sent = Append(@, read),
                                  !.pos = @ + 1,
                                  !.pending = call.script[call.pos + 1]]
    /\ UNCHANGED <<JobVars, fck, parse, verify, summ>>

\* c.httpClient.Do(req) returns and the rest of the loop body runs, up to
\* the select of a backoff wait or the return. lost: the context was done
\* while the request was in flight and Do returns its error
DoReturns(lost) ==
    /\ call.pc = "inflight"
    /\ LET d == IF call.cancelled /\ lost
                THEN TransportFailure(call.pending.written)
                ELSE call.pending
           c == [call EXCEPT !.outcomes = Append(@, d),
                             !.body = IF d.written THEN Drained ELSE @]
       IN  IF d.kind = "transport"
           THEN IF call.cancelled \/ call.attempt >= MaxRetries
                THEN call' = CallReturns(c, "request_failed", 0, NULL)
                ELSE call' = [c EXCEPT !.pc = "wait",
                                       !.wait = Backoff(call.attempt),
                                       !.reset = FALSE,
                                       !.waits = Append(@, Backoff(call.attempt))]
           ELSE IF Retryable(d)
           THEN IF call.attempt >= MaxRetries
                THEN call' = CallReturns(c, "server_error_after_retries",
                                         d.status, NULL)
                ELSE call' = [c EXCEPT !.pc = "wait",
                                       !.wait = WaitAfterStatus(d, call.attempt),
                                       !.reset = TRUE,
                                       !.waits = Append(@,
                                           WaitAfterStatus(d, call.attempt))]
           ELSE call' = ParseAnthropicResponse(c, d)
    /\ UNCHANGED <<JobVars, fck, parse, verify, summ>>

\* a wait that does not look at the context
TimerCaseAlways(c) == TRUE

\* whether the select of a wait can take "case <-time.After(waitTime)":
\* with the context done, only if the timer is ready as well
TimerCase(c) == ~c.cancelled \/ c.wait <= 0

\* "case <-time.After(waitTime)": the wait is over and the loop continues;
\* after a retryable status req.Body is set to a reader over requestBody
BackoffElapsed ==
    /\ call.pc = "wait"
    /\ TimerCase(call)
    /\ call' = [call EXCEPT !.pc = "send",
                            !.attempt = @ + 1,
                            !.body = IF call.reset THEN call.requestBody ELSE @]
    /\ UNCHANGED <<JobVars, fck, parse, verify, summ>>

\* "case <-ctx.Done()": return nil, ctx.Err()
ContextDone ==
    /\ call.pc = "wait"
    /\ call.cancelled
    /\ call' = CallReturns(call, "context_error", 0, NULL)
    /\ UNCHANGED <<JobVars, fck, parse, verify, summ>>

\* the caller's context is cancelled or its deadline expires
CancelContext ==
    /\ call.pc \in {"send", "inflight", "wait"}
    /\ ~call.cancelled
    /\ call' = [call EXCEPT !.cancelled = TRUE]
    /\ UNCHANGED <<JobVars, fck, parse, verify, summ>>

NextRetry ==
    \/ \E rejected \in BOOLEAN : DoRequest(rejected)
    \/ \E lost \in BOOLEAN : DoReturns(lost)
    \/ BackoffElapsed
    \/ ContextDone
    \/ CancelContext

SpecRetry == InitRetry /\ [][NextRetry]_vars

----------------------------------------------------------------------------
(* Claims: external API client *)

\* the results with which CallClaude returns an error
CallErrors ==
    {"request_failed", "server_error_after_retries", "context_error",
     "api_error", "rate_limit", "unknown_api_error"}

\* the call has returned and its context was never done
CallCompleted == call.pc = "done" /\ ~call.cancelled

\* C11: for one call with at most MaxRetries retries, k retryable failures
\* (transport error, 5xx, 429) followed by a 200 with k <= MaxRetries give
\* exactly k+1 requests and the 200 is returned; if every attempt fails
\* retryably, exactly MaxRetries+1 requests are sent and an error is
\* returned.
C11_RetryCount ==
    CallCompleted =>
        LET n == Len(call.script)
            final == call.script[n]
        IN  /\ final.status = 200
                  => /\ Len(call.sent) = n
                     /\ call.result = "text"
                     /\ call.status = 200
            /\ Retryable(final)
                  => /\ Len(call.sent) = MaxRetries + 1
                     /\ call.result \in CallErrors

\* C17: every attempt of a retried call sends the complete original request
\* body: whatever transport failures and 5xx/429 responses came before, the
\* body sent on attempt n is the body sent on attempt 1.
C17_BodyResent ==
    call.pc # "none" =>
        \A i \in 1..Len(call.sent) :
            call.sent[i] = call.sent[1] /\ call.sent[i] = RequestBody

\* the seconds a Retry-After header states; -1: the header is absent or is
\* not a number of seconds
SecondsStated(header) ==
    IF header = <<"5">> THEN 5 ELSE IF header = <<"0">> THEN 0 ELSE -1

\* C12: the wait before the n-th retry of a call is 2^(n-1) seconds (1, 2,
\* 4), except that after a 429 carrying a Retry-After value in seconds the
\* wait is that value.
C12_BackoffSchedule ==
    call.pc # "none" =>
        /\ Len(call.waits) <= MaxRetries
        /\ Len(call.waits) <= Len(call.outcomes)
        /\ \A n \in 1..Len(call.waits) :
              LET failed == call.outcomes[n]
              IN  IF failed.status = 429 /\ SecondsStated(failed.retryAfter) >= 0
                  THEN call.waits[n] = SecondsStated(failed.retryAfter)
                  ELSE call.waits[n] = 2 ^ (n - 1)

\* a call waited 1 s, then 5 s after a 429 with Retry-After: 5, then 4 s
C12_Witness ==
    /\ call.pc = "wait"
    /\ call.waits = <<1, 5, 4>>
    /\ call.outcomes[2].status = 429
    /\ call.outcomes[2].retryAfter = <<"5">>

\* a 4xx status other than 429
ClientError(d) ==
    d.kind = "status" /\ d.status >= 400 /\ d.status < 500 /\ d.status # 429

\* C13: a 4xx response other than 429 is never retried: it is the last thing
\* the call meets, no request follows it (one request if it answers the
\* first), and the call fails at once with an error that carries the
\* provider's status code and, when the error body parses, its message.
C13_ClientErrorNotRetried ==
    call.pc # "none" =>
        \A i \in 1..Len(call.outcomes) :
            ClientError(call.outcomes[i]) =>
                /\ i = Len(call.outcomes)
                /\ Len(call.sent) = i
                /\ call.pc = "done"
                /\ call.result \in {"api_error", "unknown_api_error"}
                /\ call.status = call.outcomes[i].status
                /\ call.outcomes[i].json
                      => call.result = "api_error" /\ call.message = ProviderMessage

\* the provider answered the first request with 400 and the call failed
\* after that one request
C13_Witness ==
    /\ call.pc = "done"
    /\ call.script[1].status = 400
    /\ Len(call.sent) = 1
    /\ call.result = "api_error"
    /\ call.status = 400

\* C14: once the caller's context is cancelled or expired the retry loop
\* sends no further request and does not sit out a backoff wait: a wait in
\* progress is abandoned at once and the call returns an error; a request
\* about to be made is not sent and the call returns an error.
C14_CancellationStopsRetries ==
    [][(call.pc \in {"send", "inflight", "wait"} /\ call.cancelled) =>
          /\ call'.sent = call.sent
          /\ (call.pc = "send" /\ call' # call)
                => call'.pc = "done" /\ call'.result \in CallErrors
          /\ (call.pc = "wait" /\ call.wait > 0 /\ call' # call)
                => call'.pc = "done" /\ call'.result = "context_error"
          /\ (call.pc = "wait" /\ call' # call)
                => /\ call'.pc \in {"done", "send"}
                   /\ call'.pc = "done" => call'.result = "context_error"]_vars

\* a call whose context was cancelled during its second backoff wait
\* returned the context's error without a third request
C14_Witness ==
    /\ call.pc = "done"
    /\ call.cancelled
    /\ call.result = "context_error"
    /\ Len(call.waits) = 2
    /\ call.wait > 0
    /\ Len(call.sent) = 2

----------------------------------------------------------------------------
(* Claims: cancellation of a running job *)

\* worker w's stage returns in this step with the error of the cancelled
\* context
CancelledStageStep(w) ==
    /\ wk[w].pc \in {"takeaway_extractor", "fact_checker"}
    /\ wk'[w] # wk[w]
    /\ "cancelled" \in {wk'[w].takeRes, wk'[w].factRes}
    /\ "cancelled" \notin {wk[w].takeRes, wk[w].factRes}

\* C15: if the context is cancelled while a stage of a job is running or
\* waiting, the cancellation comes up through the stage as an error and the
\* job is marked failed: the step in which a stage returns the context's
\* error leaves the job's row failed, and no job whose run met the
\* cancellation in a stage is completed.
C15_CancellationFailsJob ==
    [][\A w \in StageWorkers :
          /\ CancelledStageStep(w) => jobs'[wk[w].job].status = "failed"
          /\ ("cancelled" \in {wk[w].takeRes, wk[w].factRes} /\ wk'[w] # wk[w])
                => jobs'[wk[w].job].status # "completed"]_vars

----------------------------------------------------------------------------
(* agents: FactCheckerAgent.Process; clients: SerperClient *)

\* "claims = claims[:3]": the most claims extraction hands to verification
MaxClaims == 3

ExtractedClaims ==
    <<"The bridge opened in 1937", "The river is 90 miles long",
      "The town has 4000 residents">>

\* f.Name()
FactCheckerName == "fact_checker"

\* SerperAnswerBox, SerperKnowledgeGraph as JSON leaves them: absent, or
\* present with fields that may be empty
NoAnswerBox == [present |-> FALSE, snippet |-> "", answer |-> "", link |-> ""]

AnswerBoxes ==
    {NoAnswerBox,
     [present |-> TRUE, snippet |-> "", answer |-> "1937",
      link |-> "https://answers.example/bridge"]}

NoKnowledgeGraph == [present |-> FALSE, description |-> "", website |-> ""]

KnowledgeGraphs ==
    {NoKnowledgeGraph,
     [present |-> TRUE, description |-> "A suspension bridge",
      website |-> "https://graph.example/bridge"]}

\* SerperResult: a result without a snippet and one with a snippet
BareResult == [snippet |-> "", link |-> "https://bare.example/1"]

FullResult ==
    [snippet |-> "Opened to traffic in 1937", link |-> "https://news.example/2"]

OrganicLists == {<<>>, <<BareResult>>, <<BareResult, FullResult>>}

SerperResponses ==
    [answerBox : AnswerBoxes, knowledgeGraph : KnowledgeGraphs,
     organic : OrganicLists]

EmptyResponse ==
    [answerBox |-> NoAnswerBox, knowledgeGraph |-> NoKnowledgeGraph,
     organic |-> <<>>]

\* what one search request meets: httpClient.Do fails, or a status arrives
SearchAnswers ==
    {[kind |-> "transport", status |-> 0, response |-> EmptyResponse]}
    \cup {[kind |-> "status", status |-> st, response |-> EmptyResponse] :
             st \in {500, 429, 400}}
    \cup {[kind |-> "status", status |-> 200, response |-> r] :
             r \in SerperResponses}

\* a search answer the retry contract calls retryable
SearchRetryable(a) ==
    a.kind = "transport" \/ a.status >= 500 \/ a.status = 429

StatusText(st) ==
    IF st = 500 THEN "500" ELSE IF st = 429 THEN "429" ELSE "400"

\* SerperClient.Search: the error it returns for an answer other than 200
SearchError(a) ==
    IF a.kind = "transport" THEN "HTTP request failed: connection refused"
    ELSE "unknown API error (status " \o StatusText(a.status) \o ")"

\* the snippet taken from the answer box: Snippet, or Answer when empty
BoxSnippet(box) == IF box.snippet = "" THEN box.answer ELSE box.snippet

RECURSIVE OrganicSnippets(_)
OrganicSnippets(organic) ==
    IF organic = <<>> THEN <<>>
    ELSE LET r == Head(organic)
         IN  (IF r.snippet # ""
              THEN <<[snippet |-> r.snippet, url |-> r.link]>> ELSE <<>>)
             \o OrganicSnippets(Tail(organic))

RECURSIVE OrganicSources(_)
OrganicSources(organic) ==
    IF organic = <<>> THEN <<>>
    ELSE (IF Head(organic).link # "" THEN <<Head(organic).link>> ELSE <<>>)
         \o OrganicSources(Tail(organic))

\* SerperClient.extractSearchContext
ExtractSearchContext(r) ==
    LET box == r.answerBox
        kg == r.knowledgeGraph
        boxUsed == box.present /\ BoxSnippet(box) # ""
        kgUsed == kg.present /\ kg.description # ""
    IN  [snippets |->
            (IF boxUsed
             THEN <<[snippet |-> BoxSnippet(box), url |-> box.link]>>
             ELSE <<>>)
            \o (IF kgUsed
                THEN <<[snippet |-> kg.description, url |-> kg.website]>>
                ELSE <<>>)
            \o OrganicSnippets(r.organic),
         sources |->
            (IF boxUsed /\ box.link # "" THEN <<box.link>> ELSE <<>>)
            \o (IF kgUsed /\ kg.website # "" THEN <<kg.website>> ELSE <<>>)
            \o OrganicSources(r.organic),
         totalResults |-> Len(r.organic)]

NoContext == [snippets |-> <<>>, sources |-> <<>>, totalResults |-> 0]

\* how CallClaude ends for analyzeSearchResults: an error, or a reply whose
\* labelled fields are given here as parsed
AnalysisOutcomes ==
    {[err |-> "server error after retries (status 500)", verdict |-> "",
      confidence |-> 0, evidence |-> "", urls |-> <<>>],
     [err |-> NULL, verdict |-> "true", confidence |-> 90,
      evidence |-> "Sources agree on 1937",
      urls |-> <<"https://news.example/2", "https://other.example/9">>],
     [err |-> NULL, verdict |-> "mostly", confidence |-> 40,
      evidence |-> "Sources disagree", urls |-> <<>>]}

ValidVerdicts == {"true", "false", "partially_true", "unverifiable"}

\* extractVerdict: a verdict outside the valid ones becomes unverifiable
ExtractVerdict(reply) ==
    IF reply.verdict \in ValidVerdicts THEN reply.verdict ELSE "unverifiable"

Range(seq) == {seq[i] : i \in 1..Len(seq)}

\* sources taken from the reply as they are
ExtractSourcesUnchecked(reply, available) == reply.urls

\* extractSources: the reply's URLs that the search returned, else the
\* first two URLs of the search
ExtractSources(reply, available) ==
    LET found == SelectSeq(reply.urls, LAMBDA u : u \in Range(available))
    IN  IF found = <<>> /\ available # <<>>
        THEN SubSeq(available, 1, IF Len(available) < 2 THEN Len(available) ELSE 2)
        ELSE found

\* parseVerificationResult; confidence in hundredths
ParseVerificationResult(claim, reply, available) ==
    [claim |-> claim, verdict |-> ExtractVerdict(reply),
     confidence |-> reply.confidence, evidence |-> reply.evidence,
     sources |-> ExtractSources(reply, available)]

\* verifyClaim's result when the search found no snippet
NoSearchResults(claim) ==
    [claim |-> claim, verdict |-> "unverifiable", confidence |-> 0,
     evidence |-> "No search results found", sources |-> <<>>]

\* AgentError.Error()
AgentError(agent, message, cause) ==
    "agent " \o agent \o ": " \o message \o ": " \o cause

\* a replacement FactCheck that does not name its claim
VerificationFailedUnnamed(claim, err) ==
    [claim |-> "", verdict |-> "unverifiable", confidence |-> 0,
     evidence |-> "Verification failed: " \o err, sources |-> <<>>]

\* Process: the FactCheck that replaces a claim whose verifyClaim failed
VerificationFailed(claim, err) ==
    [claim |-> claim, verdict |-> "unverifiable", confidence |-> 0,
     evidence |-> "Verification failed: " \o err, sources |-> <<>>]

\* the state of one Process call once extractClaims has returned claims
NewProcess(claims) ==
    [pc |-> IF claims = <<>> THEN "done" ELSE "search",
     claims |-> claims, i |-> 1, factChecks |-> <<>>, log |-> <<>>,
     context |-> NoContext, cancelled |-> FALSE,
     result |-> IF claims = <<>> THEN "ok" ELSE "none"]

InitFactCheck ==
    /\ InitCommon
    /\ storeFaulty = FALSE
    /\ call = NoCall
    /\ parse = NoParse
    /\ verify = NoVerify
    /\ summ = NoSummary
    /\ fck \in {NewProcess(SubSeq(ExtractedClaims, 1, n)) : n \in 0..MaxClaims}

\* what is kept of claim i's verification: the search's answer, the requests
\* sent for it, the context extracted, the LLM calls made, how it ended
ClaimLog(answer, context, llmCalls, outcome) ==
    [kind |-> answer.kind, status |-> answer.status, requests |-> 1,
     context |-> context, llmCalls |-> llmCalls, outcome |-> outcome]

\* a Process that gives up at the first claim it cannot verify
ClaimDoneAborts(c, factCheck, entry) ==
    IF entry.outcome \in {"search_failed", "analysis_failed"}
    THEN [c EXCEPT !.pc = "done", !.result = "error",
                   !.log = Append(@, entry)]
    ELSE [c EXCEPT !.factChecks = Append(@, factCheck),
                   !.log = Append(@, entry),
                   !.pc = IF c.i < Len(c.claims) THEN "delay" ELSE "done",
                   !.result = IF c.i < Len(c.claims) THEN "none" ELSE "ok"]

\* Process: claim i has its FactCheck, verified or degraded; it is appended
\* and the loop delays before the next claim, or returns after the last
ClaimDone(c, factCheck, entry) ==
    [c EXCEPT !.factChecks = Append(@, factCheck),
              !.log = Append(@, entry),
              !.pc = IF c.i < Len(c.claims) THEN "delay" ELSE "done",
              !.result = IF c.i < Len(c.claims) THEN "none" ELSE "ok"]

\* a check of the result count in place of the snippets
NoSnippetsByTotal(context) == context.totalResults = 0

\* "len(searchContext.Snippets) == 0"
NoSnippets(context) == Len(context.snippets) = 0

\* verifyClaim, step 1: SearchForClaim makes its one request. An error makes
\* verifyClaim fail with "web search failed"; no snippet short-circuits;
\* otherwise the analysis follows. A cancelled context fails the request
SearchForClaim(answer) ==
    /\ fck.pc = "search"
    /\ fck.cancelled => answer.kind = "transport"
    /\ LET claim == fck.claims[fck.i]
           context == ExtractSearchContext(answer.response)
       IN  fck' =
             IF answer.kind = "transport" \/ answer.status # 200
             THEN ClaimDone(fck,
                    VerificationFailed(claim,
                        AgentError(FactCheckerName, "web search failed",
                                   SearchError(answer))),
                    ClaimLog(answer, NoContext, 0, "search_failed"))
             ELSE IF NoSnippets(context)
             THEN ClaimDone(fck, NoSearchResults(claim),
                            ClaimLog(answer, context, 0, "no_results"))
             ELSE [fck EXCEPT !.pc = "analyze", !.context = context]
    /\ UNCHANGED <<JobVars, call, parse, verify, summ>>

\* verifyClaim, step 2: analyzeSearchResults calls the LLM once; an error
\* makes verifyClaim fail with "analysis failed"
AnalyzeSearchResults(out) ==
    /\ fck.pc = "analyze"
    /\ fck.cancelled => out.err # NULL
    /\ LET claim == fck.claims[fck.i]
           answer == [kind |-> "status", status |-> 200]
       IN  fck' =
             IF out.err # NULL
             THEN ClaimDone([fck EXCEPT !.context = NoContext],
                    VerificationFailed(claim,
                        AgentError(FactCheckerName, "analysis failed", out.err)),
                    ClaimLog(answer, fck.context, 1, "analysis_failed"))
             ELSE ClaimDone([fck EXCEPT !.context = NoContext],
                    ParseVerificationResult(claim, out, fck.context.sources),
                    ClaimLog(answer, fck.context, 1, "verified"))
    /\ UNCHANGED <<JobVars, call, parse, verify, summ>>

\* "case <-time.After(3 * time.Second)": on to the next claim
DelayElapsed ==
    /\ fck.pc = "delay"
    /\ ~fck.cancelled
    /\ fck' = [fck EXCEPT !.pc = "search", !.i = @ + 1]
    /\ UNCHANGED <<JobVars, call, parse, verify, summ>>

\* "case <-ctx.Done(): return Result{}, ctx.Err()"
DelayContextDone ==
    /\ fck.pc = "delay"
    /\ fck.cancelled
    /\ fck' = [fck EXCEPT !.pc = "done", !.result = "context_error"]
    /\ UNCHANGED <<JobVars, call, parse, verify, summ>>

\* the caller's context is cancelled while Process runs
CancelProcess ==
    /\ fck.pc \in {"search", "analyze", "delay"}
    /\ ~fck.cancelled
    /\ fck' = [fck EXCEPT !.cancelled = TRUE]
    /\ UNCHANGED <<JobVars, call, parse, verify, summ>>

NextFactCheck ==
    \/ \E answer \in SearchAnswers : SearchForClaim(answer)
    \/ \E out \in AnalysisOutcomes : AnalyzeSearchResults(out)
    \/ DelayElapsed
    \/ DelayContextDone
    \/ CancelProcess

SpecFactCheck == InitFactCheck /\ [][NextFactCheck]_vars

----------------------------------------------------------------------------
(* Claims: fact checker and web search *)

\* C16: web-search calls follow the retry contract of LLM calls: a search
\* request that meets a transport error, a 5xx or a 429 is retried up to the
\* maximum attempt count, so a search is reported failed for such a cause
\* only after MaxRetries + 1 requests were sent for it.
C16_SearchRetried ==
    fck.pc # "none" =>
        \A i \in 1..Len(fck.log) :
            (fck.log[i].outcome = "search_failed" /\ SearchRetryable(fck.log[i]))
                => fck.log[i].requests = MaxRetries + 1

\* C19: when the search for a claim yields no snippet, the claim's FactCheck
\* is exactly verdict unverifiable, confidence 0.0, evidence "No search
\* results found" and no sources, and no LLM call is made for that claim.
C19_NoResultsShortCircuit ==
    fck.pc # "none" =>
        \A i \in 1..Len(fck.log) :
            (fck.log[i].status = 200 /\ fck.log[i].context.snippets = <<>>)
                => /\ fck.factChecks[i] =
                        [claim |-> fck.claims[i], verdict |-> "unverifiable",
                         confidence |-> 0,
                         evidence |-> "No search results found",
                         sources |-> <<>>]
                   /\ fck.log[i].llmCalls = 0

\* a search that returned only results without a snippet (and so URLs) was
\* answered without the LLM, and a later claim went to the LLM
C19_Witness ==
    /\ fck.pc = "done"
    /\ Len(fck.log) = 2
    /\ fck.log[1].status = 200
    /\ fck.log[1].context.snippets = <<>>
    /\ fck.log[1].context.sources # <<>>
    /\ fck.log[1].llmCalls = 0
    /\ fck.log[2].llmCalls = 1

FailureEvidence ==
    {"Verification failed: agent fact_checker: web search failed: HTTP request failed: connection refused",
     "Verification failed: agent fact_checker: web search failed: unknown API error (status 500)",
     "Verification failed: agent fact_checker: web search failed: unknown API error (status 429)",
     "Verification failed: agent fact_checker: web search failed: unknown API error (status 400)",
     "Verification failed: agent fact_checker: analysis failed: server error after retries (status 500)"}

\* C20: a search or LLM failure while verifying one claim degrades only that
\* claim to verdict unverifiable with evidence describing the failure; it
\* never aborts the stage: the loop goes on to the next claim, every claim
\* gets its FactCheck in order, and a stage that ends without cancellation
\* ends successfully with one FactCheck per claim.
C20_FailureDegradesOneClaim ==
    fck.pc # "none" =>
        /\ Len(fck.log) = Len(fck.factChecks)
        /\ \A i \in 1..Len(fck.log) :
              /\ fck.factChecks[i].claim = fck.claims[i]
              /\ fck.log[i].outcome \in {"search_failed", "analysis_failed"}
                    => /\ fck.factChecks[i].verdict = "unverifiable"
                       /\ fck.factChecks[i].confidence = 0
                       /\ fck.factChecks[i].evidence \in FailureEvidence
                       /\ fck.factChecks[i].sources = <<>>
              /\ fck.log[i].outcome = "verified"
                    => fck.factChecks[i].evidence \notin FailureEvidence
        /\ fck.pc = "done"
              => IF fck.result = "ok"
                 THEN Len(fck.factChecks) = Len(fck.claims)
                 ELSE fck.result = "context_error" /\ fck.cancelled

\* the search failed for the first claim, the LLM for the second, and the
\* third claim was verified all the same
C20_Witness ==
    /\ fck.pc = "done"
    /\ fck.result = "ok"
    /\ ~fck.cancelled
    /\ Len(fck.factChecks) = 3
    /\ fck.log[1].outcome = "search_failed"
    /\ fck.log[2].outcome = "analysis_failed"
    /\ fck.log[3].outcome = "verified"
    /\ fck.factChecks[3].verdict = "true"

----------------------------------------------------------------------------
(* agents: FactCheckerAgent.parseClaims; text is a sequence of characters *)

\* most lines in a reply
MaxLines == 4

\* "len(strings.Fields(cleanedLine)) < 4"
MinWords == 4

\* the character U+2022
Bullet == "(bullet)"

\* a numbered line of four words
NumberedClaim == <<"1", ".", " ", "a", " ", "b", " ", "c", " ", "d">>

\* a numbered line of three words
ParenShort == <<"2", ")", " ", "a", " ", "b", " ", "c">>

\* a dashed line of five words
DashClaim == <<"-", " ", "a", " ", "b", " ", "c", " ", "d", " ", "e">>

\* a bulleted line of four words
BulletClaim == <<Bullet, " ", "a", " ", "b", " ", "c", " ", "d">>

\* a starred line: four fields with its marker, three without
StarShort == <<"*", " ", "a", " ", "b", " ", "c">>

\* a numbered line with blanks around it and a tab after the marker
IndentedClaim == <<" ", " ", "3", ".", "\t", "a", " ", "b", " ", " ", "c", " ", "d", " ">>

\* a line with two markers against the order of the patterns: only the
\* dash is removed
ReversedMarkers == <<"-", " ", "1", ".", " ", "a", " ", "b", " ", "c">>

\* a line with two markers in the order the patterns are applied
DoubleMarker == <<"1", ".", " ", "-", " ", "a", " ", "b", " ", "c">>

\* an empty line
BlankLine == <<>>

ReplyLines ==
    {NumberedClaim, ParenShort, DashClaim, BulletClaim, StarShort,
     IndentedClaim,
     ReversedMarkers, DoubleMarker, BlankLine}

\* unicode.IsSpace, for the characters that occur
IsSpace(ch) == ch \in {" ", "\t", "\n", "\r"}

RECURSIVE TrimLeft(_)
TrimLeft(t) ==
    IF t # <<>> /\ IsSpace(Head(t)) THEN TrimLeft(Tail(t)) ELSE t

RECURSIVE TrimRight(_)
TrimRight(t) ==
    IF t # <<>> /\ IsSpace(t[Len(t)])
    THEN TrimRight(SubSeq(t, 1, Len(t) - 1)) ELSE t

\* strings.TrimSpace
TrimSpace(t) == TrimRight(TrimLeft(t))

\* strings.Split(t, "\n"): the text between the newlines, empty pieces kept
RECURSIVE SplitLines(_, _)
SplitLines(t, piece) ==
    IF t = <<>> THEN <<piece>>
    ELSE IF Head(t) = "\n" THEN <<piece>> \o SplitLines(Tail(t), <<>>)
    ELSE SplitLines(Tail(t), Append(piece, Head(t)))

\* the reply text of a sequence of lines
RECURSIVE JoinLines(_)
JoinLines(ls) ==
    IF ls = <<>> THEN <<>>
    ELSE IF Len(ls) = 1 THEN ls[1]
    ELSE ls[1] \o <<"\n">> \o JoinLines(Tail(ls))

\* the text after the digits a text starts with
RECURSIVE AfterDigits(_)
AfterDigits(t) ==
    IF t # <<>> /\ IsDigit(Head(t)) THEN AfterDigits(Tail(t)) ELSE t

\* ReplaceAllString of "^\d+" mark "\s*" by "": digits, then mark, then any
\* blanks are removed from the start; a text that does not start so is kept
StripNumbered(t, mark) ==
    LET rest == AfterDigits(t)
    IN  IF rest # t /\ rest # <<>> /\ Head(rest) = mark
        THEN TrimLeft(Tail(rest)) ELSE t

\* ReplaceAllString of "^" mark "\s*" by ""
StripMark(t, mark) ==
    IF t # <<>> /\ Head(t) = mark THEN TrimLeft(Tail(t)) ELSE t

\* the five patterns applied one after another, each to the result of the
\* one before
StripMarkers(line) ==
    StripMark(StripMark(StripMark(
        StripNumbered(StripNumbered(line, "."), ")"), "-"), Bullet), "*")

\* len(strings.Fields(t)): the number of runs of non-blank characters
RECURSIVE Fields(_, _)
Fields(t, inWord) ==
    IF t = <<>> THEN 0
    ELSE IF IsSpace(Head(t)) THEN Fields(Tail(t), FALSE)
    ELSE (IF inWord THEN 0 ELSE 1) + Fields(Tail(t), TRUE)

\* a length test that counts the marker as a word
TooShortWithMarker(line, cleaned) == Fields(line, FALSE) < MinWords

\* "Skip if too short"
TooShort(line, cleaned) == Fields(cleaned, FALSE) < MinWords

\* the loop of parseClaims over the lines: blank lines and short lines are
\* skipped, the others are appended without their markers
RECURSIVE CollectClaims(_)
CollectClaims(ls) ==
    IF ls = <<>> THEN <<>>
    ELSE LET line == TrimSpace(Head(ls))
             cleaned == StripMarkers(line)
         IN  (IF line = <<>> \/ TooShort(line, cleaned)
              THEN <<>> ELSE <<cleaned>>)
             \o CollectClaims(Tail(ls))

\* "claims = claims[:3]"
LimitClaims(claims) ==
    IF Len(claims) > MaxClaims THEN SubSeq(claims, 1, MaxClaims) ELSE claims

\* parseClaims
ParseClaims(rawResponse) ==
    LimitClaims(CollectClaims(SplitLines(TrimSpace(rawResponse), <<>>)))

Replies ==
    {JoinLines(ls) : ls \in UNION {[1..n -> ReplyLines] : n \in 0..MaxLines}}

\* CallClaude has returned the reply; parseClaims is about to run
InitParse ==
    /\ InitCommon
    /\ storeFaulty = FALSE
    /\ call = NoCall
    /\ fck = NoFactCheck
    /\ verify = NoVerify
    /\ summ = NoSummary
    /\ parse \in {[pc |-> "reply", rawResponse |-> raw, found |-> 0,
                   claims |-> <<>>] : raw \in Replies}

\* extractClaims: "claims := f.parseClaims(response)"
ExtractClaims ==
    /\ parse.pc = "reply"
    /\ parse' = [parse EXCEPT
                    !.pc = "parsed",
                    !.found = Len(CollectClaims(
                                SplitLines(TrimSpace(parse.rawResponse), <<>>))),
                    !.claims = ParseClaims(parse.rawResponse)]
    /\ UNCHANGED <<JobVars, call, fck, verify, summ>>

\* the reply is consumed and the next reply arrives
NextReply ==
    /\ parse.pc = "parsed"
    /\ \E raw \in {JoinLines(<<l>>) : l \in ReplyLines} :
          parse' = [pc |-> "reply", rawResponse |-> raw, found |-> 0,
                    claims |-> <<>>]
    /\ UNCHANGED <<JobVars, call, fck, verify, summ>>

NextParse == ExtractClaims \/ NextReply

SpecParse == InitParse /\ [][NextParse]_vars

----------------------------------------------------------------------------
(* Claims: claim extraction *)

\* the words of a text: the places where a non-blank character starts a run
Words(t) ==
    Cardinality({i \in 1..Len(t) :
                    /\ ~IsSpace(t[i])
                    /\ i = 1 \/ IsSpace(t[i - 1])})

\* C18: for any LLM reply, claim extraction returns at most 3 claims, and
\* every returned claim, which is a line of the reply after its list marker
\* has been stripped, has at least 4 words.
C18_ClaimsFewAndLong ==
    parse.pc = "parsed" =>
        /\ Len(parse.claims) <= 3
        /\ \A i \in 1..Len(parse.claims) :
              Words(parse.claims[i]) >= 4

\* a reply with four lines long enough gave three claims, the first of them
\* a numbered line without its number
C18_Witness ==
    /\ parse.pc = "parsed"
    /\ parse.found = 4
    /\ Len(parse.claims) = 3
    /\ parse.claims[1] = <<"a", " ", "b", " ", "c", " ", "d">>

----------------------------------------------------------------------------
(* agents: FactCheckerAgent.parseVerificationResult on the reply text *)

UpperChars ==
    <<"A", "B", "C", "D", "E", "F", "G", "H", "I", "J", "K", "L", "M",
      "N", "O", "P", "Q", "R", "S", "T", "U", "V", "W", "X", "Y", "Z">>

LowerChars ==
    <<"a", "b", "c", "d", "e", "f", "g", "h", "i", "j", "k", "l", "m",
      "n", "o", "p", "q", "r", "s", "t", "u", "v", "w", "x", "y", "z">>

\* case folding of the flag (?i)
ToLower(ch) ==
    IF \E i \in 1..Len(UpperChars) : UpperChars[i] = ch
    THEN LowerChars[CHOOSE i \in 1..Len(UpperChars) : UpperChars[i] = ch]
    ELSE ch

\* the labels of the regular expressions
ConfidenceLabel ==
    <<"C", "O", "N", "F", "I", "D", "E", "N", "C", "E", ":">>

EvidenceLabel ==
    <<"E", "V", "I", "D", "E", "N", "C", "E", ":">>

SourcesLabel ==
    <<"S", "O", "U", "R", "C", "E", "S", ":">>

\* t starts with the label, in any case
HasPrefixFold(t, label) ==
    /\ Len(t) >= Len(label)
    /\ \A i \in 1..Len(label) : ToLower(t[i]) = ToLower(label[i])

From(t, i) == SubSeq(t, i, Len(t))

\* where the label occurs in t, and the text after the occurrence at i
LabelAt(t, label) == {i \in 1..Len(t) : HasPrefixFold(From(t, i), label)}

AfterLabel(t, i, label) == From(t, i + Len(label))

Least(S) == CHOOSE i \in S : \A j \in S : i <= j

NoMatch == [ok |-> FALSE, group |-> <<>>]

Match(group) == [ok |-> TRUE, group |-> group]

\* "." of the regular expressions: any character but the newline
HasNewline(t) == \E i \in 1..Len(t) : t[i] = "\n"

\* the blanks "\s*" takes first from the start of t
LeadingSpace(t) == SubSeq(t, 1, Len(t) - Len(TrimLeft(t)))

\* label "\s*(.+)$" tried at one occurrence of the label, after being the
\* text behind the label: the blanks are skipped and the rest must reach the
\* end of the text without a newline; when only blanks follow the label,
\* "\s*" gives one back if it is not a newline
MatchToEndAt(after) ==
    LET rest == TrimLeft(after)
    IN  IF rest # <<>>
        THEN IF HasNewline(rest) THEN NoMatch ELSE Match(rest)
        ELSE IF after # <<>> /\ after[Len(after)] # "\n"
        THEN Match(<<after[Len(after)]>>)
        ELSE NoMatch

\* FindStringSubmatch of label "\s*(.+)$" (and of the lazy "(.+?)$", which
\* has the same matches): the leftmost occurrence of the label that matches
MatchToEnd(t, label) ==
    LET hits == {i \in LabelAt(t, label) :
                    MatchToEndAt(AfterLabel(t, i, label)).ok}
    IN  IF hits = {} THEN NoMatch
        ELSE MatchToEndAt(AfterLabel(t, Least(hits), label))

\* "EVIDENCE:\s*(.+?)SOURCES:" tried at one occurrence of EVIDENCE: the
\* shortest text of at least one character, without a newline, that is
\* followed by SOURCES:
MatchBetweenAt(after) ==
    LET rest == TrimLeft(after)
        space == LeadingSpace(after)
        ends == {k \in 1..Len(rest) :
                    /\ HasPrefixFold(From(rest, k + 1), SourcesLabel)
                    /\ ~HasNewline(SubSeq(rest, 1, k))}
    IN  IF ends # {} THEN Match(SubSeq(rest, 1, Least(ends)))
        ELSE IF /\ space # <<>>
                /\ space[Len(space)] # "\n"
                /\ HasPrefixFold(rest, SourcesLabel)
        THEN Match(<<space[Len(space)]>>)
        ELSE NoMatch

MatchBetween(t) ==
    LET hits == {i \in LabelAt(t, EvidenceLabel) :
                    MatchBetweenAt(AfterLabel(t, i, EvidenceLabel)).ok}
    IN  IF hits = {} THEN NoMatch
        ELSE MatchBetweenAt(AfterLabel(t, Least(hits), EvidenceLabel))

NoEvidenceProvided ==
    <<"N", "o", " ", "e", "v", "i", "d", "e", "n", "c", "e", " ", "p", "r",
      "o", "v", "i", "d", "e", "d">>

\* extractEvidence
ExtractEvidence(response) ==
    LET first == MatchBetween(response)
        second == MatchToEnd(response, EvidenceLabel)
    IN  IF first.ok THEN TrimSpace(first.group)
        ELSE IF second.ok THEN TrimSpace(second.group)
        ELSE NoEvidenceProvided

\* "[\d.]+": the digits and dots a text starts with
RECURSIVE NumericPrefix(_)
NumericPrefix(t) ==
    IF t # <<>> /\ (IsDigit(Head(t)) \/ Head(t) = ".")
    THEN <<Head(t)>> \o NumericPrefix(Tail(t)) ELSE <<>>

\* FindStringSubmatch of "CONFIDENCE:\s*([\d.]+)"
MatchConfidence(t) ==
    LET hits == {i \in LabelAt(t, ConfidenceLabel) :
                    NumericPrefix(TrimLeft(AfterLabel(t, i, ConfidenceLabel)))
                        # <<>>}
    IN  IF hits = {} THEN NoMatch
        ELSE Match(NumericPrefix(
                TrimLeft(AfterLabel(t, Least(hits), ConfidenceLabel))))

Dots(t) == {i \in 1..Len(t) : t[i] = "."}

\* the first two decimals of a fraction, as hundredths
FractionHundredths(frac) ==
    (IF Len(frac) >= 1 THEN 10 * DigitValue(frac[1]) ELSE 0)
    + (IF Len(frac) >= 2 THEN DigitValue(frac[2]) ELSE 0)

\* strconv.ParseFloat of digits and dots: an error unless there is at most
\* one dot and at least one digit; the value in hundredths (the replies
\* carry at most two decimals)
ParseFloat(t) ==
    IF Cardinality(Dots(t)) > 1 \/ Len(t) = Cardinality(Dots(t))
    THEN [ok |-> FALSE, value |-> 0]
    ELSE LET dot == IF Dots(t) = {} THEN Len(t) + 1 ELSE Least(Dots(t))
             whole == SubSeq(t, 1, dot - 1)
             frac == From(t, dot + 1)
         IN  [ok |-> TRUE,
              value |-> (IF whole = <<>> THEN 0 ELSE 100 * DigitsValue(whole, 0))
                        + FractionHundredths(frac)]

\* the default of extractConfidence, 0.5, in hundredths
DefaultConfidence == 50

\* a confidence that is stored as parsed
ClampNone(v) == v

\* "Clamp to valid range", in hundredths
Clamp(v) == IF v < 0 THEN 0 ELSE IF v > 100 THEN 100 ELSE v

\* extractConfidence, in hundredths
ExtractConfidence(response) ==
    LET m == MatchConfidence(response)
    IN  IF m.ok /\ ParseFloat(m.group).ok
        THEN Clamp(ParseFloat(m.group).value)
        ELSE DefaultConfidence

HttpScheme ==
    <<"h", "t", "t", "p", ":", "/", "/">>

HttpsScheme ==
    <<"h", "t", "t", "p", "s", ":", "/", "/">>

HasPrefix(t, p) == Len(t) >= Len(p) /\ SubSeq(t, 1, Len(p)) = p

\* "[^\s\],]+": the characters of a URL a text starts with
RECURSIVE URLChars(_)
URLChars(t) ==
    IF t # <<>> /\ ~IsSpace(Head(t)) /\ Head(t) \notin {"]", ","}
    THEN <<Head(t)>> \o URLChars(Tail(t)) ELSE <<>>

\* the match of "https?://[^\s\],]+" at the start of t, or nothing
URLAt(t) ==
    LET scheme == IF HasPrefix(t, HttpsScheme) THEN HttpsScheme
                  ELSE IF HasPrefix(t, HttpScheme) THEN HttpScheme
                  ELSE <<>>
        tail == URLChars(From(t, Len(scheme) + 1))
    IN  IF scheme # <<>> /\ tail # <<>> THEN scheme \o tail ELSE <<>>

\* urlRegex.FindAllString(sourcesText, -1)
RECURSIVE FindAllURLs(_)
FindAllURLs(t) ==
    IF t = <<>> THEN <<>>
    ELSE IF URLAt(t) # <<>>
    THEN <<URLAt(t)>> \o FindAllURLs(From(t, Len(URLAt(t)) + 1))
    ELSE FindAllURLs(Tail(t))

EmptyList ==
    <<"[", "]">>

\* extractSources: the URLs found in the text behind SOURCES:
FoundURLs(response) ==
    LET m == MatchToEnd(response, SourcesLabel)
        sourcesText == TrimSpace(m.group)
    IN  IF m.ok /\ sourcesText # <<>> /\ sourcesText # EmptyList
        THEN FindAllURLs(sourcesText) ELSE <<>>

URLa == <<"h", "t", "t", "p", ":", "/", "/", "a">>

URLb == <<"h", "t", "t", "p", ":", "/", "/", "b">>

URLc == <<"h", "t", "t", "p", ":", "/", "/", "c">>

\* a URL no search returned
URLx == <<"h", "t", "t", "p", ":", "/", "/", "x">>

\* a value in range
ConfInRange ==
    [text |->
            <<"C", "O", "N", "F", "I", "D", "E", "N", "C", "E", ":", " ", "0", ".",
              "8", "5">>,
     kind |-> "in_range"]

\* the label in lower case, the value 1
ConfLowerCase ==
    [text |->
            <<"c", "o", "n", "f", "i", "d", "e", "n", "c", "e", ":", " ", "1">>,
     kind |-> "in_range"]

\* a value above 1
ConfAbove ==
    [text |->
            <<"C", "O", "N", "F", "I", "D", "E", "N", "C", "E", ":", " ", "1", ".",
              "5">>,
     kind |-> "above"]

\* a negative value
ConfNegative ==
    [text |->
            <<"C", "O", "N", "F", "I", "D", "E", "N", "C", "E", ":", " ", "-", "0",
              ".", "2">>,
     kind |-> "negative"]

\* a word in place of the value
ConfWord ==
    [text |->
            <<"C", "O", "N", "F", "I", "D", "E", "N", "C", "E", ":", " ", "h", "i",
              "g", "h">>,
     kind |-> "non_numeric"]

\* digits and dots that are no number
ConfTwoDots ==
    [text |->
            <<"C", "O", "N", "F", "I", "D", "E", "N", "C", "E", ":", " ", "0", ".",
              "8", ".", "5">>,
     kind |-> "non_numeric"]

\* no CONFIDENCE field
ConfMissing ==
    [text |-> <<>>,
     kind |-> "missing"]

ConfidencePieces ==
    {ConfInRange, ConfLowerCase, ConfAbove, ConfNegative,
     ConfWord, ConfTwoDots, ConfMissing}

\* an EVIDENCE field
EvPlain ==
    [text |->
            <<"E", "V", "I", "D", "E", "N", "C", "E", ":", " ", "o", "k", " ", "s",
              "u", "r", "e">>,
     present |-> TRUE, body |-> <<"o", "k", " ", "s", "u", "r", "e">>]

\* an EVIDENCE field with blanks around its text
EvSpaced ==
    [text |->
            <<"e", "v", "i", "d", "e", "n", "c", "e", ":", " ", " ", " ", "t", "w",
              "o", " ", " ", "w", "o", "r", "d", "s", " ", " ">>,
     present |-> TRUE,
     body |-> <<"t", "w", "o", " ", " ", "w", "o", "r", "d", "s">>]

\* no EVIDENCE field
EvMissing ==
    [text |-> <<>>,
     present |-> FALSE, body |-> <<>>]

EvidencePieces == {EvPlain, EvSpaced, EvMissing}

\* a URL of the search and one of no search
SrcMixed ==
    [text |->
            <<"S", "O", "U", "R", "C", "E", "S", ":", " ", "h", "t", "t", "p", ":",
              "/", "/", "a", ",", " ", "h", "t", "t", "p", ":", "/", "/", "x">>,
     urls |-> <<URLa, URLx>>]

\* a URL in brackets
SrcBracketed ==
    [text |->
            <<"S", "O", "U", "R", "C", "E", "S", ":", " ", "[", "h", "t", "t", "p",
              ":", "/", "/", "b", "]">>,
     urls |-> <<URLb>>]

\* only a URL of no search
SrcFake ==
    [text |->
            <<"S", "O", "U", "R", "C", "E", "S", ":", " ", "h", "t", "t", "p", ":",
              "/", "/", "x">>,
     urls |-> <<URLx>>]

\* an empty list
SrcEmptyList ==
    [text |->
            <<"S", "O", "U", "R", "C", "E", "S", ":", " ", "[", "]">>,
     urls |-> <<>>]

\* no SOURCES field
SrcMissing ==
    [text |-> <<>>,
     urls |-> <<>>]

SourcesPieces == {SrcMixed, SrcBracketed, SrcFake, SrcEmptyList, SrcMissing}

VerdictPiece ==
    <<"V", "E", "R", "D", "I", "C", "T", ":", " ", "t", "r", "u", "e">>

\* the fields on one line, or on separate lines as the prompt lays them out
Layouts == {"one_line", "lines"}

Separator(layout) == IF layout = "one_line" THEN <<" ">> ELSE <<"\n">>

\* the reply text: the fields present, in the prompt's order
ReplyText(layout, conf, ev, src) ==
    VerdictPiece
    \o (IF conf.text = <<>> THEN <<>> ELSE Separator(layout) \o conf.text)
    \o (IF ev.text = <<>> THEN <<>> ELSE Separator(layout) \o ev.text)
    \o (IF src.text = <<>> THEN <<>> ELSE Separator(layout) \o src.text)

\* searchContext.Sources of the search made for the claim
AvailableSources == {<<>>, <<URLa>>, <<URLa, URLb, URLc>>}

\* analyzeSearchResults has the reply of CallClaude
NewVerification(layout, conf, ev, src, available) ==
    [pc |-> "reply", layout |-> layout, conf |-> conf, ev |-> ev,
     src |-> src, response |-> ReplyText(layout, conf, ev, src),
     available |-> available,
     confidence |-> 0, evidence |-> <<>>, sources |-> <<>>]

InitVerify ==
    /\ InitCommon
    /\ storeFaulty = FALSE
    /\ call = NoCall
    /\ fck = NoFactCheck
    /\ parse = NoParse
    /\ summ = NoSummary
    /\ verify \in {NewVerification(layout, conf, ev, src, available) :
                     layout \in Layouts, conf \in ConfidencePieces,
                     ev \in EvidencePieces, src \in SourcesPieces,
                     available \in AvailableSources}

\* parseVerificationResult(claim, response, searchContext.Sources)
ParseReply ==
    /\ verify.pc = "reply"
    /\ verify' = [verify EXCEPT
                    !.pc = "parsed",
                    !.confidence = ExtractConfidence(verify.response),
                    !.evidence = ExtractEvidence(verify.response),
                    !.sources = ExtractSources(
                                    [urls |-> FoundURLs(verify.response)],
                                    verify.available)]
    /\ UNCHANGED <<JobVars, call, fck, parse, summ>>

NextVerify == ParseReply

SpecVerify == InitVerify /\ [][NextVerify]_vars

----------------------------------------------------------------------------
(* Claims: parsing the verification reply *)

\* the first two URLs of a search, or the fewer there are
FirstTwo(available) ==
    IF Len(available) <= 2 THEN available ELSE <<available[1], available[2]>>

\* C21: every URL in a FactCheck's sources was among the URLs returned by
\* the search made for that claim: a URL of the LLM reply that the search
\* did not return is left out, and when no URL of the reply matches (or the
\* reply gives none) the sources are the first two URLs of that search.
C21_SourcesFromSearch ==
    verify.pc = "parsed" =>
        /\ \A i \in 1..Len(verify.sources) :
              /\ verify.sources[i] \in Range(verify.available)
              /\ verify.sources[i] # URLx
        /\ Range(verify.src.urls) \cap Range(verify.available) = {}
              => verify.sources = FirstTwo(verify.available)

\* of a reply naming a URL of the search and a URL of no search, only the
\* first was kept
C21_Witness ==
    /\ verify.pc = "parsed"
    /\ verify.src = SrcMixed
    /\ verify.available = <<URLa, URLb, URLc>>
    /\ verify.sources = <<URLa>>

\* C22: for any LLM reply text (CONFIDENCE value in range, above 1,
\* negative, non-numeric or missing) the parsed confidence lies between 0.0
\* and 1.0, and it is 0.5 when the value is missing or cannot be parsed.
C22_ConfidenceInRange ==
    verify.pc = "parsed" =>
        /\ verify.confidence >= 0
        /\ verify.confidence <= 100
        /\ verify.conf.kind \in {"missing", "non_numeric"}
              => verify.confidence = 50
        /\ verify.conf = ConfInRange => verify.confidence = 85

\* a reply with CONFIDENCE: 1.5 was parsed to 1.0
C22_Witness ==
    /\ verify.pc = "parsed"
    /\ verify.conf.kind = "above"
    /\ verify.confidence = 100

\* C28: for any LLM reply with an EVIDENCE field, with the fields on one
\* line or on separate lines, the parsed evidence is the text between the
\* EVIDENCE and SOURCES markers (or up to the end of the text without
\* SOURCES); "No evidence provided" is used only when the field is missing.
C28_EvidenceBetweenMarkers ==
    verify.pc = "parsed" =>
        IF verify.ev.present
        THEN verify.evidence = verify.ev.body
        ELSE verify.evidence = NoEvidenceProvided

----------------------------------------------------------------------------
(* Claims: the fields of a job row *)

\* the status updates the code applies
StatusUpdates ==
    {<<"processing", "">>, <<"completed", "">>,
     <<"failed", "Transcript not found">>,
     <<"failed", "Failed to save analysis results">>}

\* C23: status updates are idempotent: applying the same status update to a
\* job twice leaves the job row in exactly the state that applying it once
\* leaves it in.
C23_StatusUpdateIdempotent ==
    \A j \in 1..Len(jobs) : \A u \in StatusUpdates :
        LET once == UpdateJobStatus(jobs, j, u[1], u[2])
        IN  UpdateJobStatus(once, j, u[1], u[2])[j] = once[j]

\* C24: a job's completed_at is unset while the job is pending or
\* processing, is set at the job's first transition into completed or
\* failed, and is never changed afterwards.
C24_CompletedAtSetOnce ==
    [][\A j \in 1..Len(jobs) :
          /\ jobs'[j].status \in {"pending", "processing"}
                => jobs'[j].completedAt = 0
          /\ (jobs[j].status \notin Terminal /\ jobs'[j].status \in Terminal)
                => jobs'[j].completedAt # 0
          /\ jobs[j].completedAt # 0
                => jobs'[j].completedAt = jobs[j].completedAt]_vars

\* C25: in every reachable state a job's error_message is set only if its
\* status is failed: a pending, processing or completed job carries none.
C25_ErrorMessageOnlyWhenFailed ==
    \A j \in 1..Len(jobs) :
        jobs[j].errorMessage # NULL => jobs[j].status = "failed"

----------------------------------------------------------------------------
(* Claims: order of claim verification *)

\* C26: whenever the Fact Checker stage returns successfully for n extracted
\* claims it returns exactly n FactChecks, the i-th being the result for the
\* i-th extracted claim, and the verification of claim i+1 does not begin
\* until the verification of claim i has finished: while claim i is searched
\* or analysed exactly the claims before it have their FactChecks.
C26_OneFactCheckPerClaimInOrder ==
    fck.pc # "none" =>
        /\ (fck.pc = "done" /\ fck.result = "ok")
              => /\ Len(fck.factChecks) = Len(fck.claims)
                 /\ \A i \in 1..Len(fck.claims) :
                       fck.factChecks[i].claim = fck.claims[i]
        /\ fck.pc \in {"search", "analyze"}
              => /\ fck.i \in 1..Len(fck.claims)
                 /\ Len(fck.factChecks) = fck.i - 1
        /\ fck.pc = "delay"
              => /\ fck.i < Len(fck.claims)
                 /\ Len(fck.factChecks) = fck.i
        /\ \A k \in 1..Len(fck.factChecks) :
              fck.factChecks[k].claim = ExtractedClaims[k]

\* the stage returned three FactChecks for three claims: one without search
\* results, one whose search failed and one verified, in the claims' order
C26_Witness ==
    /\ fck.pc = "done"
    /\ fck.result = "ok"
    /\ Len(fck.claims) = 3
    /\ fck.log[1].outcome = "no_results"
    /\ fck.log[2].outcome = "search_failed"
    /\ fck.log[3].outcome = "verified"
    /\ fck.factChecks[2].claim = "The river is 90 miles long"

----------------------------------------------------------------------------
(* agents: SummarizerAgent.Process, cleanSummary, validateSummary *)

\* "len(summary) < 20"
MinSummaryChars == 20

\* "lastSpace > s.maxChars-20"
BoundaryWindow == 20

\* cfg.SummaryMaxChars as configured
MaxCharsConfigured == {24, 30}

PrefixSummary ==
    <<"S", "u", "m", "m", "a", "r", "y", ":">>

PrefixSUMMARY ==
    <<"S", "U", "M", "M", "A", "R", "Y", ":">>

PrefixPodcastSummary ==
    <<"P", "o", "d", "c", "a", "s", "t", " ", "S", "u", "m", "m", "a", "r",
      "y", ":">>

PrefixThisPodcast ==
    <<"T", "h", "i", "s", " ", "p", "o", "d", "c", "a", "s", "t", " ", "d",
      "i", "s", "c", "u", "s", "s", "e", "s">>

PrefixInThisPodcast ==
    <<"I", "n", " ", "t", "h", "i", "s", " ", "p", "o", "d", "c", "a", "s",
      "t">>

PrefixThePodcast ==
    <<"T", "h", "e", " ", "p", "o", "d", "c", "a", "s", "t", " ", "c", "o",
      "v", "e", "r", "s">>

\* the prefixes of cleanSummary, in its order
Prefixes ==
    <<PrefixSummary, PrefixSUMMARY, PrefixPodcastSummary,
      PrefixThisPodcast, PrefixInThisPodcast, PrefixThePodcast>>

\* two characters
BodyTiny ==
    <<"o", "k">>

\* eighteen characters: nineteen with the final period
BodyNearMinimum ==
    <<"t", "h", "e", " ", "s", "h", "o", "w", " ", "c", "o", "v", "e", "r",
      "s", " ", "a", "i">>

\* twenty characters
BodyMinimum ==
    <<"h", "o", "s", "t", "s", " ", "t", "a", "l", "k", " ", "a", "b", "o",
      "u", "t", " ", "t", "a", "x">>

\* runs of blanks and a newline inside
BodySpaced ==
    <<"T", "w", "o", " ", "h", "o", "s", "t", "s", " ", " ", "d", "e", "b",
      "a", "t", "e", "\n", "r", "a", "t", "e", "s">>

\* over every budget, with spaces
BodyLong ==
    <<"H", "o", "s", "t", "s", " ", "c", "o", "m", "p", "a", "r", "e", " ",
      "t", "h", "r", "e", "e", " ", "b", "u", "d", "g", "e", "t", " ", "p",
      "l", "a", "n", "s", " ", "f", "o", "r", " ", "c", "i", "t", "i", "e",
      "s">>

\* over every budget, without a space
BodyUnbroken ==
    <<"S", "u", "p", "e", "r", "c", "a", "l", "i", "f", "r", "a", "g", "i",
      "l", "i", "s", "t", "i", "c", "e", "x", "p", "i", "a", "l", "i", "d",
      "o", "c", "i", "o", "u", "s", "-", "a", "n", "d", "-", "m", "o", "r",
      "e">>

\* nothing
BodyEmpty == <<>>

Bodies ==
    {BodyTiny, BodyNearMinimum, BodyMinimum, BodySpaced,
     BodyLong, BodyUnbroken, BodyEmpty}

\* what the LLM may put before its summary, and how it may end it
Openings == {<<>>, <<" ", "\n">>, PrefixSummary \o <<" ">>,
             PrefixInThisPodcast \o <<" ">>}

Endings == {<<>>, <<".">>, <<"!", " ">>}

RawSummaries ==
    {o \o b \o e : o \in Openings, b \in Bodies, e \in Endings}

\* the first prefix of the list the text starts with, or none
RECURSIVE FirstPrefix(_, _)
FirstPrefix(t, prefixes) ==
    IF prefixes = <<>> THEN <<>>
    ELSE IF HasPrefix(t, Head(prefixes)) THEN Head(prefixes)
    ELSE FirstPrefix(t, Tail(prefixes))

\* "summary = strings.TrimSpace(summary[len(prefix):])" for the first prefix
StripPrefix(t) ==
    IF FirstPrefix(t, Prefixes) = <<>> THEN t
    ELSE TrimSpace(From(t, Len(FirstPrefix(t, Prefixes)) + 1))

\* strings.ToUpper of one character
ToUpper(ch) ==
    IF \E i \in 1..Len(LowerChars) : LowerChars[i] = ch
    THEN UpperChars[CHOOSE i \in 1..Len(LowerChars) : LowerChars[i] = ch]
    ELSE ch

\* "Ensure it starts with a capital letter"
Capitalize(t) == IF t = <<>> THEN t ELSE <<ToUpper(Head(t))>> \o Tail(t)

\* ReplaceAllString of "\s+" by " "
RECURSIVE NormalizeSpace(_)
NormalizeSpace(t) ==
    IF t = <<>> THEN <<>>
    ELSE IF IsSpace(Head(t)) THEN <<" ">> \o NormalizeSpace(TrimLeft(t))
    ELSE <<Head(t)>> \o NormalizeSpace(Tail(t))

\* "Ensure it ends with proper punctuation"
Punctuate(t) ==
    IF t # <<>> /\ t[Len(t)] \notin {".", "!", "?"} THEN Append(t, ".")
    ELSE t

\* cleanSummary
CleanSummary(rawSummary) ==
    Punctuate(NormalizeSpace(Capitalize(StripPrefix(TrimSpace(rawSummary)))))

\* strings.LastIndex(t, " ") counted from 0; -1 without a space
LastSpace(t) ==
    LET at == {i \in 1..Len(t) : t[i] = " "}
    IN  IF at = {} THEN -1 ELSE (CHOOSE i \in at : \A j \in at : j <= i) - 1

Ellipsis == <<".", ".", ".">>

\* validateSummary's truncation, the value of its local variable summary
Truncate(summary, maxChars) ==
    IF Len(summary) <= maxChars THEN summary
    ELSE LET truncated == SubSeq(summary, 1, maxChars)
         IN  (IF LastSpace(truncated) > maxChars - BoundaryWindow
              THEN SubSeq(truncated, 1, LastSpace(truncated))
              ELSE truncated) \o Ellipsis

\* validateSummary: the error it returns; the truncated text stays in the
\* function's own copy of summary
ValidateSummary(summary, maxChars) ==
    IF summary = <<>> THEN "generated summary is empty"
    ELSE IF Len(Truncate(summary, maxChars)) < MinSummaryChars
    THEN "summary too short to be meaningful"
    ELSE NULL

SummarizerOutcomes ==
    {[err |-> "server error after retries (status 500)", text |-> <<>>]}
    \cup {[err |-> NULL, text |-> raw] : raw \in RawSummaries}

\* Process has validated the content and calls the LLM
InitSummary ==
    /\ InitCommon
    /\ storeFaulty = FALSE
    /\ call = NoCall
    /\ fck = NoFactCheck
    /\ parse = NoParse
    /\ verify = NoVerify
    /\ summ \in {[pc |-> "call", maxChars |-> n, raw |-> <<>>,
                  summary |-> <<>>, err |-> NULL] : n \in MaxCharsConfigured}

\* CallClaude fails: Process returns "failed to generate summary"
CallClaudeFails(out) ==
    /\ summ.pc = "call"
    /\ out.err # NULL
    /\ summ' = [summ EXCEPT !.pc = "done",
                            !.err = AgentError("summarizer",
                                        "failed to generate summary", out.err)]
    /\ UNCHANGED <<JobVars, call, fck, parse, verify>>

\* CallClaude returns the raw summary: it is cleaned and validated, and
\* Process returns Result{Summary: summary} with the cleaned summary, or the
\* error of validateSummary
CallClaudeReturns(out) ==
    /\ summ.pc = "call"
    /\ out.err = NULL
    /\ LET summary == CleanSummary(out.text)
           invalid == ValidateSummary(summary, summ.maxChars)
       IN  summ' = [summ EXCEPT
                      !.pc = "done",
                      !.raw = out.text,
                      !.summary = IF invalid = NULL THEN summary ELSE <<>>,
                      !.err = invalid]
    /\ UNCHANGED <<JobVars, call, fck, parse, verify>>

NextSummary ==
    \/ \E out \in SummarizerOutcomes : CallClaudeFails(out)
    \/ \E out \in SummarizerOutcomes : CallClaudeReturns(out)

SpecSummary == InitSummary /\ [][NextSummary]_vars

----------------------------------------------------------------------------
(* Claims: the summary *)

\* C27: the summary the Summarizer stage returns never exceeds the
\* configured maximum of characters (output over it is truncated at a word
\* boundary) and is never empty or shorter than the minimum length; output
\* that is empty or too short is rejected with an error.
C27_SummaryWithinBudget ==
    summ.pc = "done" =>
        IF summ.err = NULL
        THEN /\ Len(summ.summary) <= summ.maxChars
             /\ Len(summ.summary) >= 20
        ELSE summ.summary = <<>>

----------------------------------------------------------------------------
(* The job pipeline over a store whose operations may fail *)

InitStoreFaults == InitCommon /\ storeFaulty = TRUE /\ AgentsIdle

SpecStoreFaults == InitStoreFaults /\ [][Next]_vars

----------------------------------------------------------------------------
(* Claims: jobs end in a terminal status *)

\* the step in which worker w's processing of a job message ends: by a
\* normal return, an error return or a panic
ProcessingEnds(w) == Active(w) /\ ~Active(w)'

\* C29: every job whose message a worker dequeues reaches a terminal status:
\* whenever the processing of a job message ends (normal return, error
\* return or panic), also when a status or result write to the store failed
\* on the way, the job's status is completed or failed and not pending or
\* processing.
C29_ProcessedJobsEndTerminal ==
    [][\A w \in Workers :
          ProcessingEnds(w) => jobs'[wk[w].job].status \in Terminal]_vars

----------------------------------------------------------------------------
(* Claims: persisted fact checks under redelivery *)

\* the fact-check rows one run of job j can leave: none, those of the
\* placeholder of cmd/worker, or those of the Fact Checker for the content
SingleRunRows(j) ==
    {<<>>, PlaceholderFactChecks, CheckFacts(Content(jobs[j].transcript))}

\* C30: if the same job message is delivered more than once, the job's
\* persisted fact checks are not duplicated or altered: after any number of
\* deliveries the stored fact-check rows of the job are exactly those of a
\* single run, one row per verified claim.
C30_FactChecksNotDuplicated ==
    \A j \in 1..Len(jobs) : factChecks[j] \in SingleRunRows(j)

====
